---- MODULE Spec2Model ----
(***************************************************************************)
(* WikiTalk: the context retrieval and answer orchestration engine         *)
(* (wikitalk/orchestrator.py, retrieval.py, llm.py, db.py, wiki.py).       *)
(*                                                                         *)
(* A Python str is a sequence of one-character strings; the fixed message  *)
(* literals of answer_question are sequences holding one multi-character   *)
(* atom.                                                                   *)
(* None is the value None_.                                                *)
(***************************************************************************)
EXTENDS Integers, Sequences, FiniteSets, TLC

\* ------------------------------------------------------------------ text

None_ == "<None>"

\* str.isspace for the characters of the model's alphabet (\s of re)
IsSpace(c) == c \in {" ", "\n"}

\* str.strip() on the left
RECURSIVE LStrip(_)
LStrip(s) ==
    IF s = <<>> THEN <<>>
    ELSE IF IsSpace(Head(s)) THEN LStrip(Tail(s)) ELSE s

\* str.strip() on the right
RECURSIVE RStrip(_)
RStrip(s) ==
    IF s = <<>> THEN <<>>
    ELSE IF IsSpace(s[Len(s)]) THEN RStrip(SubSeq(s, 1, Len(s) - 1)) ELSE s

\* str.strip()
Strip(s) == RStrip(LStrip(s))

\* `not s.strip()`
IsBlank(s) == Strip(s) = <<>>

\* sep.join(parts)
RECURSIVE Join(_, _)
Join(parts, sep) ==
    IF parts = <<>> THEN <<>>
    ELSE IF Len(parts) = 1 THEN parts[1]
    ELSE parts[1] \o sep \o Join(Tail(parts), sep)

\* index of the first occurrence of sep in s, 0 when there is none (str.find + 1)
Find(s, sep) ==
    LET hits == {i \in 1..(Len(s) - Len(sep) + 1) : SubSeq(s, i, i + Len(sep) - 1) = sep}
    IN IF hits = {} THEN 0 ELSE CHOOSE i \in hits : \A j \in hits : i <= j

\* s.split(sep) for a non-empty separator
RECURSIVE Split(_, _)
Split(s, sep) ==
    LET i == Find(s, sep)
    IN IF i = 0 THEN <<s>>
       ELSE <<SubSeq(s, 1, i - 1)>> \o Split(SubSeq(s, i + Len(sep), Len(s)), sep)

\* s.splitlines(): no empty last line after a final newline, none for ""
RECURSIVE SplitLines(_)
SplitLines(s) ==
    IF s = <<>> THEN <<>>
    ELSE LET i == Find(s, <<"\n">>)
         IN IF i = 0 THEN <<s>>
            ELSE <<SubSeq(s, 1, i - 1)>> \o SplitLines(SubSeq(s, i + 1, Len(s)))

\* [p.strip() for p in parts if p.strip()]
RECURSIVE SelectNonBlank(_)
SelectNonBlank(parts) ==
    IF parts = <<>> THEN <<>>
    ELSE (IF IsBlank(Head(parts)) THEN <<>> ELSE <<Strip(Head(parts))>>)
         \o SelectNonBlank(Tail(parts))

\* ------------------------------------------------------- retrieval.py

ChunkCap == 1200

\* "Introduction"
Introduction == <<"I", "n", "t", "r", "o", "d", "u", "c", "t", "i", "o", "n">>

\* "Section"
SectionDefault == <<"S", "e", "c", "t", "i", "o", "n">>

Chunk(section, text, start_line, end_line) ==
    [section |-> section, text |-> text, start_line |-> start_line, end_line |-> end_line]

\* number of leading characters of s that are in the set cs
RECURSIVE RunLen(_, _)
RunLen(s, cs) ==
    IF s = <<>> \/ Head(s) \notin cs THEN 0 ELSE 1 + RunLen(Tail(s), cs)

\* r matches \s*=+\s*$ from its start
MatchesTail(r) ==
    LET core == Strip(r)
    IN core # <<>> /\ \A i \in 1..Len(core) : core[i] = "="

\* a heading pattern without the leading \s* : an indented heading is body text
HeadingMatch_NoIndent(line) ==
    IF line # <<>> /\ Head(line) = "=" /\ MatchesTail(Tail(line))
    THEN [matched |-> TRUE, name |-> <<>>]
    ELSE IF line # <<>> /\ Head(line) = "=" /\ Len(line) >= 2 /\ line[Len(line)] = "="
         THEN [matched |-> TRUE,
               name |-> Strip(SubSeq(line, RunLen(line, {"="}) + 1,
                                     Len(line) - RunLen([i \in 1..Len(line) |-> line[Len(line) + 1 - i]], {"="})))]
         ELSE [matched |-> FALSE, name |-> <<>>]

\* heading_re.match(line) for ^\s*=+\s*(.*?)\s*=+\s*$ : the backtracking order
\* is the leading "=" run longest first, then the blanks after it longest
\* first, then the captured name shortest first.
HeadingMatch(line) ==
    LET n1 == RunLen(line, {" "})
        r1 == SubSeq(line, n1 + 1, Len(line))
        E  == RunLen(r1, {"="})
        W  == RunLen(SubSeq(r1, E + 1, Len(r1)), {" "})
        Cands == {c \in (1..E) \X (0..W) \X (0..Len(line)) :
                    /\ (c[1] < E => c[2] = 0)
                    /\ n1 + c[1] + c[2] + c[3] <= Len(line)
                    /\ MatchesTail(SubSeq(line, n1 + c[1] + c[2] + c[3] + 1, Len(line)))}
        Before(c, d) ==
            \/ c[1] > d[1]
            \/ c[1] = d[1] /\ c[2] > d[2]
            \/ c[1] = d[1] /\ c[2] = d[2] /\ c[3] <= d[3]
    IN IF Cands = {} THEN [matched |-> FALSE, name |-> <<>>]
       ELSE LET b == CHOOSE c \in Cands : \A d \in Cands : Before(c, d)
                p == n1 + b[1] + b[2]
            IN [matched |-> TRUE, name |-> SubSeq(line, p + 1, p + b[3])]

\* flush(end_idx) of split_into_chunks: the chunks after flushing buf
Flush(chunks, buf, current_section, sec_start, end_idx) ==
    LET text == Strip(Join(buf, <<"\n">>))
    IN IF buf # <<>> /\ text # <<>>
       THEN Append(chunks, Chunk(current_section, text, sec_start, end_idx))
       ELSE chunks

\* the first pass without the `or "Section"` of an empty captured name
RECURSIVE SectionPass_NoDefault(_, _, _, _, _, _)
SectionPass_NoDefault(lines, i, chunks, buf, current_section, sec_start) ==
    IF i > Len(lines)
    THEN Flush(chunks, buf, current_section, sec_start, Len(lines) - 1)
    ELSE LET m == HeadingMatch(lines[i])
         IN IF m.matched
            THEN SectionPass_NoDefault(lines, i + 1,
                                       Flush(chunks, buf, current_section, sec_start, i - 2),
                                       <<>>, m.name, i)
            ELSE SectionPass_NoDefault(lines, i + 1, chunks, Append(buf, lines[i]),
                                       current_section, sec_start)

\* first pass of split_into_chunks: one provisional chunk per section body
RECURSIVE SectionPass(_, _, _, _, _, _)
SectionPass(lines, i, chunks, buf, current_section, sec_start) ==
    IF i > Len(lines)
    THEN Flush(chunks, buf, current_section, sec_start, Len(lines) - 1)
    ELSE LET m == HeadingMatch(lines[i])
         IN IF m.matched
            THEN SectionPass(lines, i + 1,
                             Flush(chunks, buf, current_section, sec_start, i - 2),
                             <<>>,
                             IF m.name # <<>> THEN m.name ELSE SectionDefault,
                             i)
            ELSE SectionPass(lines, i + 1, chunks, Append(buf, lines[i]),
                             current_section, sec_start)

\* the second pass starting the next chunk empty when the cap is reached
RECURSIVE PackParas_DropsAtCap(_, _, _, _, _)
PackParas_DropsAtCap(ch, paras, current, current_len, out) ==
    LET emit(c) == Chunk(ch.section, Join(c, <<"\n", "\n">>), ch.start_line, ch.end_line)
    IN IF paras = <<>>
       THEN IF current # <<>> THEN Append(out, emit(current)) ELSE out
       ELSE LET p == Head(paras)
            IN IF current_len + Len(p) > ChunkCap /\ current # <<>>
               THEN PackParas_DropsAtCap(ch, Tail(paras), <<>>, 0, Append(out, emit(current)))
               ELSE PackParas_DropsAtCap(ch, Tail(paras), Append(current, p),
                                         current_len + Len(p), out)

\* second pass of split_into_chunks for one provisional chunk: greedy packing
\* of its paragraphs under the cap
RECURSIVE PackParas(_, _, _, _, _)
PackParas(ch, paras, current, current_len, out) ==
    LET emit(c) == Chunk(ch.section, Join(c, <<"\n", "\n">>), ch.start_line, ch.end_line)
    IN IF paras = <<>>
       THEN IF current # <<>> THEN Append(out, emit(current)) ELSE out
       ELSE LET p == Head(paras)
            IN IF current_len + Len(p) > ChunkCap /\ current # <<>>
               THEN PackParas(ch, Tail(paras), <<p>>, Len(p), Append(out, emit(current)))
               ELSE PackParas(ch, Tail(paras), Append(current, p), current_len + Len(p), out)

RECURSIVE PackAll(_, _)
PackAll(chunks, out) ==
    IF chunks = <<>> THEN out
    ELSE LET ch == Head(chunks)
             paras == SelectNonBlank(Split(ch.text, <<"\n", "\n">>))
         IN PackAll(Tail(chunks), PackParas(ch, paras, <<>>, 0, out))

split_into_chunks(plain_text) ==
    LET chunks == SectionPass(SplitLines(plain_text), 1, <<>>, <<>>, Introduction, 0)
        final_chunks == PackAll(chunks, <<>>)
    IN IF final_chunks # <<>> THEN final_chunks ELSE chunks

Range(f) == {f[i] : i \in DOMAIN f}

\* str.lower() then re.sub(r"[^a-z0-9\s]", " ", s) on one character
UpperCase == <<"A", "B", "C", "D", "E", "F", "G", "H", "I", "J", "K", "L", "M",
               "N", "O", "P", "Q", "R", "S", "T", "U", "V", "W", "X", "Y", "Z">>

LowerCase == <<"a", "b", "c", "d", "e", "f", "g", "h", "i", "j", "k", "l", "m",
               "n", "o", "p", "q", "r", "s", "t", "u", "v", "w", "x", "y", "z">>

Digits == {"0", "1", "2", "3", "4", "5", "6", "7", "8", "9"}

Lower(c) ==
    IF \E i \in 1..26 : UpperCase[i] = c
    THEN LowerCase[CHOOSE i \in 1..26 : UpperCase[i] = c]
    ELSE c

IsWordChar(c) == c \in Range(LowerCase) \cup Digits

NormChar(c) == LET l == Lower(c) IN IF IsWordChar(l) \/ IsSpace(l) THEN l ELSE " "

\* s.split(): the maximal runs of non-blank characters
RECURSIVE Words(_, _, _)
Words(s, cur, acc) ==
    IF s = <<>> THEN (IF cur # <<>> THEN Append(acc, cur) ELSE acc)
    ELSE IF IsSpace(Head(s))
         THEN Words(Tail(s), <<>>, IF cur # <<>> THEN Append(acc, cur) ELSE acc)
         ELSE Words(Tail(s), Append(cur, Head(s)), acc)

simple_tokenize(s) == Words([i \in 1..Len(s) |-> NormChar(s[i])], <<>>, <<>>)

\* history[-n:]
LastN(s, n) == IF Len(s) <= n THEN s ELSE SubSeq(s, Len(s) - n + 1, Len(s))

\* s[:n]
FirstN(s, n) == IF Len(s) <= n THEN s ELSE SubSeq(s, 1, n)

HistWindow == 4

\* scores are fixed-point numbers, ScoreUnit standing for 1.0
ScoreUnit == 1000

\* floor of the square root of m, by bisection on lo..hi
RECURSIVE ISqrtIn(_, _, _)
ISqrtIn(m, lo, hi) ==
    IF lo >= hi THEN lo
    ELSE LET mid == (lo + hi + 1) \div 2
         IN IF mid * mid <= m THEN ISqrtIn(m, mid, hi) ELSE ISqrtIn(m, lo, mid - 1)

\* n ** 0.5 in score units
SqrtUnits(n) == ISqrtIn(n * ScoreUnit * ScoreUnit, 0, (n + 1) * ScoreUnit)

\* number of i with s[i] = t
Count(s, t) == Cardinality({i \in DOMAIN s : s[i] = t})

\* sum over the tokens t of S of freq.get(t, 0)
RECURSIVE SumOver(_, _)
SumOver(S, s) ==
    IF S = {} THEN 0
    ELSE LET t == CHOOSE x \in S : TRUE IN Count(s, t) + SumOver(S \ {t}, s)

\* score_chunk without the keyword overlap with the chunk's text
score_chunk_SectionOnly(query, history, chunk) ==
    LET q_tokens    == simple_tokenize(query)
        hist_tokens == IF history # <<>>
                       THEN simple_tokenize(Join(LastN(history, HistWindow), <<" ">>))
                       ELSE <<>>
        tokens      == Range(q_tokens) \cup Range(hist_tokens)
        ch_tokens   == simple_tokenize(chunk.text)
        sec_tokens  == Range(simple_tokenize(chunk.section))
        bonus       == Cardinality(tokens \cap sec_tokens)
    IN IF tokens = {} THEN 0
       ELSE IF ch_tokens = <<>> THEN 0
       ELSE bonus * (ScoreUnit \div 2)

\* the score with the section bonus added before the chunk's text is looked at
score_chunk_BonusFirst(query, history, chunk) ==
    LET q_tokens    == simple_tokenize(query)
        hist_tokens == IF history # <<>>
                       THEN simple_tokenize(Join(LastN(history, HistWindow), <<" ">>))
                       ELSE <<>>
        tokens      == Range(q_tokens) \cup Range(hist_tokens)
        ch_tokens   == simple_tokenize(chunk.text)
        overlap     == SumOver(tokens, ch_tokens)
        sec_tokens  == Range(simple_tokenize(chunk.section))
        bonus       == Cardinality(tokens \cap sec_tokens)
    IN IF tokens = {} THEN 0
       ELSE (overlap * ScoreUnit * ScoreUnit) \div (ScoreUnit + SqrtUnits(Len(ch_tokens)))
            + bonus * (ScoreUnit \div 2)

score_chunk(query, history, chunk) ==
    LET q_tokens    == simple_tokenize(query)
        hist_tokens == IF history # <<>>
                       THEN simple_tokenize(Join(LastN(history, HistWindow), <<" ">>))
                       ELSE <<>>
        tokens      == Range(q_tokens) \cup Range(hist_tokens)
        ch_tokens   == simple_tokenize(chunk.text)
        overlap     == SumOver(tokens, ch_tokens)
        sec_tokens  == Range(simple_tokenize(chunk.section))
        bonus       == Cardinality(tokens \cap sec_tokens)
    IN IF tokens = {} THEN 0
       ELSE IF ch_tokens = <<>> THEN 0
       ELSE (overlap * ScoreUnit * ScoreUnit) \div (ScoreUnit + SqrtUnits(Len(ch_tokens)))
            + bonus * (ScoreUnit \div 2)

\* list.sort(key=score, reverse=True): stable, so equal scores keep their order;
\* insertion of x after every element whose score is >= its own
RECURSIVE InsertDesc(_, _)
InsertDesc(sorted, x) ==
    IF sorted = <<>> THEN <<x>>
    ELSE IF Head(sorted).s >= x.s THEN <<Head(sorted)>> \o InsertDesc(Tail(sorted), x)
    ELSE <<x>> \o sorted

RECURSIVE SortDesc(_, _)
SortDesc(scored, acc) ==
    IF scored = <<>> THEN acc ELSE SortDesc(Tail(scored), InsertDesc(acc, Head(scored)))

RECURSIVE PositiveOf(_)
PositiveOf(scored) ==
    IF scored = <<>> THEN <<>>
    ELSE (IF Head(scored).s > 0 THEN <<Head(scored).ch>> ELSE <<>>) \o PositiveOf(Tail(scored))

\* retrieve_top_k without the `if s > 0`
retrieve_top_k_Unfiltered(chunks, query, history, k) ==
    LET scored == [i \in 1..Len(chunks) |->
                     [s |-> score_chunk(query, history, chunks[i]), ch |-> chunks[i]]]
        top == FirstN(SortDesc(scored, <<>>), k)
    IN [i \in 1..Len(top) |-> top[i].ch]

retrieve_top_k(chunks, query, history, k) ==
    LET scored == [i \in 1..Len(chunks) |->
                     [s |-> score_chunk(query, history, chunks[i]), ch |-> chunks[i]]]
    IN PositiveOf(FirstN(SortDesc(scored, <<>>), k))

\* ------------------------------------------------------------- the world

\* the language editions and the titles a session can name
Languages == {"en", "de"}

Titles == {"Turing", "turing"}

TextEn == <<"a", " ", "b", ".", "\n", "=", "=", " ", "B", "i", "o", " ", "=", "=", "\n",
            "b", " ", "c", ".", " ", "c", "!", " ", "c", "?", " ", "e", ".">>

UrlEn == "https://en.wikipedia.org/wiki/Turing"

UrlBerlinEn == "https://en.wikipedia.org/wiki/Berlin"

UrlBerlinDe == "https://de.wikipedia.org/wiki/Berlin"

\* what the MediaWiki API answers for (language, title): the page, or a page
\* marked missing (here the German edition has no page on Turing, and both
\* editions have their own page on Berlin); a title is normalised by the API
\* ("turing" -> "Turing")
WikiPage(language, title) ==
    IF language = "en" /\ title \in {"Turing", "turing"}
    THEN [missing |-> FALSE, title |-> "Turing", pageid |-> 1, revision_id |-> 11,
          url |-> UrlEn, extract |-> TextEn]
    ELSE IF title = "Berlin" /\ language \in {"en", "de"}
    THEN [missing |-> FALSE, title |-> "Berlin",
          pageid |-> IF language = "en" THEN 2 ELSE 3,
          revision_id |-> IF language = "en" THEN 22 ELSE 33,
          url |-> IF language = "en" THEN UrlBerlinEn ELSE UrlBerlinDe,
          extract |-> IF language = "en" THEN <<"b", ".">> ELSE <<"c", ".">>]
    ELSE [missing |-> TRUE]

\* the questions asked and the texts of stored messages
Questions == {<<"b", "?">>, <<"z">>}

UserTexts == {<<"b">>}

AssistantTexts == {<<"o", "k">>}

\* the threads that run engine calls; the engine's own caller is one thread
Threads == {"t1"}

\* the ids the sessions table hands out, and an id it never holds
SessionIds == {1}

SessionArgs == SessionIds \cup {2}

\* bound of the messages table
MaxMessages == 2

\* sessions created, and rows of the messages table, where several sessions
\* are followed
MaxSessions == 2

MaxRows == 3

\* ------------------------------------------------------------------ state

VARIABLES
    sessions,        \* db: sessions table, id -> [language, article_title, article_url]
    next_session_id, \* db: the AUTOINCREMENT counter of sessions
    messages,        \* db: messages table in id order, [session_id, role, text]
    articles,        \* db: articles table, <<title, language>> -> row
    wiki_language,   \* WikipediaClient.language of the shared client
    gemini_api_key,  \* LLMClient.gemini_api_key
    call,            \* thread -> the frame of its engine call
    fetch_log,       \* the (title, language) requests the article source has served
    current_session_id, \* AppGUI.current_session_id
    network_queue,   \* AppGUI.network_queue
    status,          \* the text of the AppGUI.status label
    db_lock,         \* Database._lock: its owner and its recursion count
    db_call,         \* thread -> its position in a Database method
    article_rows,    \* db: the rows of the articles table, as its statements see them
    probe            \* a call of one of the engine's pure functions

\* the state of the presentation layer, of the store's lock and of a function
\* call, which the engine's steps leave alone
aside == <<current_session_id, network_queue, status, db_lock, db_call, article_rows, probe>>

vars == <<sessions, next_session_id, messages, articles, wiki_language, gemini_api_key, call,
          fetch_log, aside>>

\* An Optional[...] of a record is the empty set (None) or a singleton.
The(S) == CHOOSE x \in S : TRUE

\* ---------------------------------------------------------------- db.py

get_session(session_id) ==
    IF session_id \in DOMAIN sessions THEN {sessions[session_id]} ELSE {}

list_messages(session_id) == SelectSeq(messages, LAMBDA m : m.session_id = session_id)

get_article(title, language) ==
    IF <<title, language>> \in DOMAIN articles THEN {articles[<<title, language>>]} ELSE {}

\* INSERT ... ON CONFLICT(title, language) DO UPDATE: the table after the call
upsert_article(title, language, pageid, revision_id, url, content) ==
    [k \in DOMAIN articles \cup {<<title, language>>} |->
        IF k = <<title, language>>
        THEN [title |-> title, language |-> language, pageid |-> pageid,
              revision_id |-> revision_id, url |-> url, content |-> content]
        ELSE articles[k]]

\* --------------------------------------------------------------- wiki.py

\* fetch_page_extract(title) on the client whose language is `language`, when
\* the request goes through: None for a missing page
fetch_page_extract(language, title) ==
    LET page == WikiPage(language, title)
    IN IF page.missing THEN {}
       ELSE {[pageid |-> page.pageid, title |-> page.title,
              revision_id |-> page.revision_id, url |-> page.url,
              extract |-> page.extract]}

\* ---------------------------------------------------------------- llm.py

available == gemini_api_key \notin {None_, ""}

\* the generateContent answers: a list of candidates, each a list of part texts
GeminiResponses ==
    { <<>>, << <<>> >>, << << <<" ">>, <<"\n">> >> >>, << << <<"o", "k">>, <<".">> >> >> }

RECURSIVE Concat(_)
Concat(parts) == IF parts = <<>> THEN <<>> ELSE Head(parts) \o Concat(Tail(parts))

\* _chat_gemini after the request: "" without candidates, else the parts joined
ChatText(data) == IF data = <<>> THEN <<>> ELSE Concat(data[1])

HistoryTurns == 4

\* build_messages: two system messages, the last 4 pairs, the question
RECURSIVE PairMessages(_)
PairMessages(pairs) ==
    IF pairs = <<>> THEN <<>>
    ELSE <<[role |-> "user", content |-> Head(pairs)[1]]>>
         \o (IF Head(pairs)[2] # <<>>
             THEN <<[role |-> "assistant", content |-> Head(pairs)[2]]>> ELSE <<>>)
         \o PairMessages(Tail(pairs))

RECURSIVE ContextParts(_, _)
ContextParts(chunks, i) ==
    IF i > Len(chunks) THEN <<>>
    ELSE << <<"[Chunk ", ToString(i), "] Section: ">> \o chunks[i].section \o <<"\n">> \o chunks[i].text >>
         \o ContextParts(chunks, i + 1)

\* build_messages rendering every history pair, not the last 4
build_messages_AllHistory(question, history_pairs, chunks, article_title, article_url) ==
    LET ctx == Join(ContextParts(chunks, 1), <<"\n", "\n">>)
        src_line == <<"Article: ", article_title, " - ">>
                    \o (IF article_url \in {None_, ""} THEN <<>> ELSE <<article_url>>)
        content_instruction == <<"Use only these sources">> \o <<"\n">> \o src_line
                               \o <<"\n", "\n">> \o ctx
    IN << [role |-> "system", content |-> <<"You are a helpful assistant">>],
          [role |-> "system", content |-> content_instruction] >>
       \o PairMessages(history_pairs)
       \o << [role |-> "user", content |-> question] >>

build_messages(question, history_pairs, chunks, article_title, article_url) ==
    LET ctx == Join(ContextParts(chunks, 1), <<"\n", "\n">>)
        src_line == <<"Article: ", article_title, " - ">>
                    \o (IF article_url \in {None_, ""} THEN <<>> ELSE <<article_url>>)
        content_instruction == <<"Use only these sources">> \o <<"\n">> \o src_line
                               \o <<"\n", "\n">> \o ctx
    IN << [role |-> "system", content |-> <<"You are a helpful assistant">>],
          [role |-> "system", content |-> content_instruction] >>
       \o PairMessages(LastN(history_pairs, HistoryTurns))
       \o << [role |-> "user", content |-> question] >>

\* ------------------------------------------------------- orchestrator.py

\* HistoryLoop without `pending_user = None` after a pair is appended
RECURSIVE HistoryLoop_KeepPending(_, _, _)
HistoryLoop_KeepPending(msgs, pending, pairs) ==
    IF msgs = <<>>
    THEN IF pending # {} THEN Append(pairs, <<The(pending), <<>>>>) ELSE pairs
    ELSE LET m == Head(msgs)
         IN IF m.role = "user" THEN HistoryLoop_KeepPending(Tail(msgs), {m.text}, pairs)
            ELSE IF m.role = "assistant"
            THEN IF pending = {} THEN HistoryLoop_KeepPending(Tail(msgs), pending, pairs)
                 ELSE HistoryLoop_KeepPending(Tail(msgs), pending,
                                              Append(pairs, <<The(pending), m.text>>))
            ELSE HistoryLoop_KeepPending(Tail(msgs), pending, pairs)

\* the history loop of answer_question: pending is the Optional pending_user
RECURSIVE HistoryLoop(_, _, _)
HistoryLoop(msgs, pending, pairs) ==
    IF msgs = <<>>
    THEN IF pending # {} THEN Append(pairs, <<The(pending), <<>>>>) ELSE pairs
    ELSE LET m == Head(msgs)
         IN IF m.role = "user" THEN HistoryLoop(Tail(msgs), {m.text}, pairs)
            ELSE IF m.role = "assistant"
            THEN IF pending = {} THEN HistoryLoop(Tail(msgs), pending, pairs)
                 ELSE HistoryLoop(Tail(msgs), {}, Append(pairs, <<The(pending), m.text>>))
            ELSE HistoryLoop(Tail(msgs), pending, pairs)

history_pairs_of(msgs) == HistoryLoop(msgs, {}, <<>>)

\* re.split(r"(?<=[.!?])\s+", text): cut at each run of blanks that follows
\* one of . ! ?
RECURSIVE SplitSentences(_, _, _)
SplitSentences(s, cur, acc) ==
    IF s = <<>> THEN Append(acc, cur)
    ELSE IF IsSpace(Head(s)) /\ cur # <<>> /\ cur[Len(cur)] \in {".", "!", "?"}
         THEN SplitSentences(LStrip(s), <<>>, Append(acc, cur))
         ELSE SplitSentences(Tail(s), Append(cur, Head(s)), acc)

SnippetChunks == 5

SnippetSentences == 3

MsgSnippetsHead ==
    <<"LLM is unavailable. Based on the article context, here are the most relevant snippets and where to look next:">>

MsgSuggestions ==
    <<"Suggestions: consider reading the cited sections in full for more detail, or refine your question to target a specific part.">>

MsgNothingFound ==
    <<"LLM is unavailable and I couldn't find relevant content in the provided article. Try rephrasing the question or loading a different section/article.">>

MsgExternalHead ==
    <<"I couldn't find this directly in the article. Here are a few external resources:">>

\* the snippet line without its section label
SnippetLine_NoLabel(ch) ==
    Join(FirstN(SplitSentences(Strip(ch.text), <<>>, <<>>), SnippetSentences), <<" ">>)

\* the snippet line of one chunk
SnippetLine(ch) ==
    <<"[Section: ">> \o ch.section \o <<"] ">>
    \o Join(FirstN(SplitSentences(Strip(ch.text), <<>>, <<>>), SnippetSentences), <<" ">>)

\* ExtractiveAnswer without the else branch: no text when no snippet was made
ExtractiveAnswer_NoElse(top_chunks) ==
    LET shown == FirstN(top_chunks, SnippetChunks)
        snippet_lines == [i \in 1..Len(shown) |-> SnippetLine(shown[i])]
    IN IF snippet_lines # <<>>
       THEN MsgSnippetsHead \o <<"\n", "\n">> \o Join(snippet_lines, <<"\n", "\n">>)
            \o <<"\n", "\n">> \o MsgSuggestions
       ELSE <<>>

\* the answer of the extractive branch
ExtractiveAnswer(top_chunks) ==
    LET shown == FirstN(top_chunks, SnippetChunks)
        snippet_lines == [i \in 1..Len(shown) |-> SnippetLine(shown[i])]
    IN IF snippet_lines # <<>>
       THEN MsgSnippetsHead \o <<"\n", "\n">> \o Join(snippet_lines, <<"\n", "\n">>)
            \o <<"\n", "\n">> \o MsgSuggestions
       ELSE MsgNothingFound

\* the RelatedTopics items of the search answer: a dict with Text, FirstURL
\* and Topics ("" and <<>> when absent or empty), or something that is no dict
Topic(text, url) == [dict |-> TRUE, Text |-> text, FirstURL |-> url, Topics |-> <<>>]

Group(subs) == [dict |-> TRUE, Text |-> "", FirstURL |-> "", Topics |-> subs]

NoDict == [dict |-> FALSE]

MaxResults == 5

\* the inner loop over item["Topics"]: a sub-item that is no dict raises
RECURSIVE SubLoop(_, _)
SubLoop(subs, acc) ==
    IF subs = <<>> \/ acc.raised THEN acc
    ELSE LET sub == Head(subs)
         IN IF ~sub.dict THEN [acc EXCEPT !.raised = TRUE]
            ELSE IF sub.FirstURL # "" /\ sub.Text # ""
            THEN SubLoop(Tail(subs),
                         [acc EXCEPT !.results = Append(@, <<sub.Text, sub.FirstURL>>)])
            ELSE SubLoop(Tail(subs), acc)

\* the loop over RelatedTopics, left once 5 results are collected
RECURSIVE RelatedLoop(_, _)
RelatedLoop(related, acc) ==
    IF related = <<>> \/ acc.raised THEN acc
    ELSE LET item == Head(related)
             after == IF item.dict /\ item.FirstURL # "" /\ item.Text # ""
                      THEN [acc EXCEPT !.results = Append(@, <<item.Text, item.FirstURL>>)]
                      ELSE IF item.dict /\ item.Topics # <<>>
                      THEN SubLoop(item.Topics, acc)
                      ELSE acc
         IN IF after.raised \/ Len(after.results) >= MaxResults THEN after
            ELSE RelatedLoop(Tail(related), after)

CollectResults(related) == RelatedLoop(related, [raised |-> FALSE, results |-> <<>>])

\* the markdown link list of the external branch
ExternalAnswer(results) ==
    LET shown == FirstN(results, MaxResults)
        md_lines == <<MsgExternalHead, <<>>>>
                    \o [i \in 1..Len(shown) |-> <<"- [", shown[i][1], "](", shown[i][2], ")">>]
    IN Join(md_lines, <<"\n">>)

\* what the search service can answer: a transport or decoding error, or a
\* RelatedTopics list
SixTopics == [i \in 1..6 |-> Topic("L", "U")]

SearchItems ==
    { Topic("L1", "U1"), Topic("L2", ""), Topic("", "U3"), NoDict,
      Group(<<Topic("L4", "U4")>>), Group(<<Topic("L5", "U5"), NoDict>>), Group(SixTopics) }

MaxRelated == 1

RECURSIVE SeqsUpTo(_, _)
SeqsUpTo(S, n) ==
    IF n = 0 THEN {<<>>}
    ELSE LET shorter == SeqsUpTo(S, n - 1)
         IN shorter \cup {Append(q, x) : q \in {r \in shorter : Len(r) = n - 1}, x \in S}

SearchOutcomes ==
    {[error |-> TRUE, related |-> <<>>]}
    \cup {[error |-> FALSE, related |-> r] : r \in SeqsUpTo(SearchItems, MaxRelated)}

\* ------------------------------------------------ the frame of a call

NoCitations == [article |-> [title |-> "", url |-> ""], sections |-> <<>>]

NoResult == [kind |-> "none", error |-> "", answer |-> <<>>, citations |-> NoCitations]

\* The locals of answer_question / ensure_article_cached, the position pc, and
\* a record of what the call has done so far: trace (the store, network and
\* fallback steps taken, in order), fetched (how the article source answered:
\* "found", "missing" or "error"), retrieved (what retrieve_top_k returned),
\* reply (the model's text), searched (an Optional: whether the search raised
\* and how many results with label and URL it collected),
\* before_search (the answer string when the search was issued), answer_by
\* (the step that assigned the answer last), prompt (the message list built
\* for the model), origin (an Optional: the session that was current when the
\* user sent the question this call answers), sent_at (the place in the
\* messages table of the user message _send_clicked stored for the question,
\* 0 when the caller stored none), title_to and language_to (Optionals: the
\* sessions an article-load worker passed to set_session_article and to
\* set_session_language).
IdleFrame ==
    [pc |-> "idle", entry |-> "", session_id |-> 0, question |-> <<>>,
     language |-> "", article_title |-> "", data |-> {}, title |-> "", url |-> "",
     chunks |-> <<>>, history_pairs |-> <<>>, top_chunks |-> <<>>,
     citations |-> NoCitations, answer |-> <<>>, used_external |-> FALSE,
     result |-> NoResult, trace |-> <<>>, retrieved |-> <<>>, reply |-> {},
     searched |-> {}, before_search |-> <<>>, answer_by |-> "", prompt |-> <<>>,
     fetched |-> "", origin |-> {}, sent_at |-> 0, title_to |-> {}, language_to |-> {}]

Step(f, pc, event) == [f EXCEPT !.pc = pc, !.trace = Append(@, event)]

\* `raise ...` out of the call
Raise(f, error) == [f EXCEPT !.pc = "done", !.result = [NoResult EXCEPT !.kind = "raise", !.error = error]]

ErrInvalidSession == "Invalid session."

ErrNoArticle == "Select an article first."

ErrNotFound == "Article not found."

ErrTransport == "URLError"

ErrNotConfigured == "Gemini API key not configured."

\* -------------------------------------------------------- initial state

NoProbe == [fn |-> "", pc |-> "idle", args |-> <<>>, out |-> <<>>]

\* threading.RLock(): no owner
Unlocked == [owner |-> None_, count |-> 0]

\* no window and no caller inside the store
\* the texts _set_status shows (the ellipsis character written as three dots)
StatusReady == "Ready"

StatusThinking == "Thinking..."

StatusError == "Error"

NoWindow == current_session_id = {} /\ network_queue = <<>> /\ status = StatusReady

NoCaller == db_lock = Unlocked /\ db_call = <<>> /\ article_rows = <<>>

Quiet == NoWindow /\ NoCaller /\ probe = NoProbe

\* a new database file, and no engine call
EmptyStore ==
    /\ sessions = <<>>
    /\ next_session_id = 1
    /\ messages = <<>>
    /\ articles = <<>>
    /\ fetch_log = {}

Standby ==
    /\ wiki_language = "en"
    /\ gemini_api_key = None_
    /\ call = [t \in Threads |-> IdleFrame]

Init ==
    /\ sessions = <<>>
    /\ next_session_id = 1
    /\ messages = <<>>
    /\ articles = <<>>
    /\ wiki_language = "en"
    /\ gemini_api_key \in {None_, "key"}
    /\ call = [t \in Threads |-> IdleFrame]
    /\ fetch_log = {}
    /\ Quiet

\* ------------------------------------ the store, as its other callers use it

create_session(language) ==
    /\ next_session_id \in SessionIds
    /\ sessions' = [k \in DOMAIN sessions \cup {next_session_id} |->
                      IF k = next_session_id
                      THEN [language |-> language, article_title |-> None_, article_url |-> None_]
                      ELSE sessions[k]]
    /\ next_session_id' = next_session_id + 1
    /\ UNCHANGED <<messages, articles, wiki_language, gemini_api_key, call, fetch_log, aside>>

set_session_article(session_id, title, url) ==
    /\ session_id \in DOMAIN sessions
    /\ sessions' = [sessions EXCEPT ![session_id].article_title = title,
                                    ![session_id].article_url = url]
    /\ UNCHANGED <<next_session_id, messages, articles, wiki_language, gemini_api_key, call, fetch_log, aside>>

set_session_language(session_id, language) ==
    /\ session_id \in DOMAIN sessions
    /\ sessions' = [sessions EXCEPT ![session_id].language = language]
    /\ UNCHANGED <<next_session_id, messages, articles, wiki_language, gemini_api_key, call, fetch_log, aside>>

\* DELETE FROM sessions with ON DELETE CASCADE on messages (foreign_keys=ON)
delete_session(session_id) ==
    /\ session_id \in DOMAIN sessions
    /\ sessions' = [k \in DOMAIN sessions \ {session_id} |-> sessions[k]]
    /\ messages' = SelectSeq(messages, LAMBDA m : m.session_id # session_id)
    /\ UNCHANGED <<next_session_id, articles, wiki_language, gemini_api_key, call, fetch_log, aside>>

\* INSERT INTO messages; the foreign key rejects a session that does not exist
add_message(session_id, role, text) ==
    /\ session_id \in DOMAIN sessions
    /\ Len(messages) < MaxMessages
    /\ messages' = Append(messages, [session_id |-> session_id, role |-> role, text |-> text])
    /\ UNCHANGED <<sessions, next_session_id, articles, wiki_language, gemini_api_key, call, fetch_log, aside>>

\* ------------------------------------------------------ the engine calls

Others == <<sessions, next_session_id, messages, wiki_language, gemini_api_key, fetch_log, aside>>

\* a caller invokes answer_question(session_id, question)
call_answer_question(t, session_id, question) ==
    /\ call[t].pc = "idle"
    /\ call' = [call EXCEPT ![t] = [IdleFrame EXCEPT !.pc = "get_session",
                                       !.entry = "answer_question",
                                       !.session_id = session_id,
                                       !.question = question]]
    /\ UNCHANGED <<Others, articles>>

\* a caller invokes ensure_article_cached(title, language)
call_ensure_article_cached(t, title, language) ==
    /\ call[t].pc = "idle"
    /\ call' = [call EXCEPT ![t] = [IdleFrame EXCEPT !.pc = "get_article",
                                       !.entry = "ensure_article_cached",
                                       !.article_title = title,
                                       !.language = language]]
    /\ UNCHANGED <<Others, articles>>

\* ValidateSession testing `article_title is None` in place of `not article_title`
ValidateSession_NoneOnly(f) ==
    LET session == get_session(f.session_id)
        g == Step(f, "get_article", "get_session")
    IN IF session = {} THEN Raise(g, ErrInvalidSession)
       ELSE IF The(session).article_title = None_ THEN Raise(g, ErrNoArticle)
       ELSE [g EXCEPT !.language = The(session).language,
                      !.article_title = The(session).article_title]

\* answer_question: get_session and the two precondition checks
ValidateSession(f) ==
    LET session == get_session(f.session_id)
        g == Step(f, "get_article", "get_session")
    IN IF session = {} THEN Raise(g, ErrInvalidSession)
       ELSE IF The(session).article_title \in {None_, ""} THEN Raise(g, ErrNoArticle)
       ELSE [g EXCEPT !.language = The(session).language,
                      !.article_title = The(session).article_title]

aq_get_session(t) ==
    /\ call[t].pc = "get_session"
    /\ call' = [call EXCEPT ![t] = ValidateSession(@)]
    /\ UNCHANGED <<Others, articles>>

\* EacReturn handing the article to the model step at once, with no history
\* and no retrieval
EacReturn_SkipsRetrieval(f, title, url, chunks) ==
    LET g == [f EXCEPT !.title = title, !.url = url, !.chunks = chunks]
    IN IF f.entry = "ensure_article_cached"
       THEN [g EXCEPT !.pc = "done", !.result = [NoResult EXCEPT !.kind = "return"]]
       ELSE [g EXCEPT !.pc = "chat"]

\* ensure_article_cached has returned (title, url, chunks) to its caller
EacReturn(f, title, url, chunks) ==
    LET g == [f EXCEPT !.title = title, !.url = url, !.chunks = chunks]
    IN IF f.entry = "ensure_article_cached"
       THEN [g EXCEPT !.pc = "done", !.result = [NoResult EXCEPT !.kind = "return"]]
       ELSE [g EXCEPT !.pc = "list_messages"]

\* CacheLookup going on to the article source even on a hit
CacheLookup_Refresh(f) == Step(f, "set_language", "get_article")

\* ensure_article_cached: the cache lookup; a hit returns the cached content
CacheLookup(f) ==
    LET cached == get_article(f.article_title, f.language)
        g == Step(f, "set_language", "get_article")
    IN IF cached # {}
       THEN EacReturn(g, f.article_title, The(cached).url, split_into_chunks(The(cached).content))
       ELSE g

eac_get_article(t) ==
    /\ call[t].pc = "get_article"
    /\ call' = [call EXCEPT ![t] = CacheLookup(@)]
    /\ UNCHANGED <<Others, articles>>

\* ensure_article_cached: self.wiki.language = language
eac_set_language(t) ==
    /\ call[t].pc = "set_language"
    /\ wiki_language' = call[t].language
    /\ call' = [call EXCEPT ![t] = Step(@, "fetch", "set_language")]
    /\ UNCHANGED <<sessions, next_session_id, messages, gemini_api_key, articles, fetch_log, aside>>

\* AfterFetch without the `if not data: raise`: a missing page cached as empty
AfterFetch_NoRaise(f, data) ==
    LET g == Step(f, "upsert", "fetch")
    IN IF data = {}
       THEN [g EXCEPT !.fetched = "missing",
                      !.data = {[pageid |-> 0, title |-> f.article_title, revision_id |-> 0,
                                 url |-> None_, extract |-> <<>>]}]
       ELSE [g EXCEPT !.data = data, !.fetched = "found"]

\* ensure_article_cached: what follows the answer of fetch_page_extract
AfterFetch(f, data) ==
    LET g == Step(f, "upsert", "fetch")
    IN IF data = {} THEN Raise([g EXCEPT !.fetched = "missing"], ErrNotFound)
       ELSE [g EXCEPT !.data = data, !.fetched = "found"]

\* eac_fetch sending the request again when it failed
eac_fetch_Retries(t) ==
    /\ call[t].pc = "fetch"
    /\ \/ call' = [call EXCEPT ![t] = [Step(@, "fetch", "fetch") EXCEPT !.fetched = "error"]]
       \/ call' = [call EXCEPT ![t] =
                     AfterFetch(@, fetch_page_extract(wiki_language, call[t].article_title))]
    /\ UNCHANGED <<Others, articles>>

\* ensure_article_cached: fetch_page_extract(title) on the shared client; the
\* request fails (urlopen raises) or is answered for the client's language
eac_fetch(t) ==
    /\ call[t].pc = "fetch"
    /\ \/ call' = [call EXCEPT ![t] =
                     Raise([Step(@, "done", "fetch") EXCEPT !.fetched = "error"], ErrTransport)]
       \/ call' = [call EXCEPT ![t] =
                     AfterFetch(@, fetch_page_extract(wiki_language, call[t].article_title))]
    /\ UNCHANGED <<Others, articles>>

\* ensure_article_cached: the table after the upsert of the fetched page
UpsertFetched(f) ==
    LET data == The(f.data)
    IN upsert_article(data.title, f.language, data.pageid, data.revision_id,
                      data.url, data.extract)

\* eac_upsert also writing the page's own title back into the session
eac_upsert_SetsSession(t) ==
    /\ call[t].pc = "upsert"
    /\ articles' = UpsertFetched(call[t])
    /\ fetch_log' = fetch_log \cup {<<call[t].article_title, call[t].language>>}
    /\ call' = [call EXCEPT ![t] =
                  LET data == The(@.data)
                  IN EacReturn(Step(@, "list_messages", "upsert"),
                               data.title, data.url, split_into_chunks(data.extract))]
    /\ sessions' = [k \in DOMAIN sessions |->
                      IF k = call[t].session_id
                      THEN [sessions[k] EXCEPT !.article_title = The(call[t].data).title]
                      ELSE sessions[k]]
    /\ UNCHANGED <<next_session_id, messages, wiki_language, gemini_api_key, aside>>

\* the article source has served the request of this call
eac_upsert(t) ==
    /\ call[t].pc = "upsert"
    /\ articles' = UpsertFetched(call[t])
    /\ fetch_log' = fetch_log \cup {<<call[t].article_title, call[t].language>>}
    /\ call' = [call EXCEPT ![t] =
                  LET data == The(@.data)
                  IN EacReturn(Step(@, "list_messages", "upsert"),
                               data.title, data.url, split_into_chunks(data.extract))]
    /\ UNCHANGED <<sessions, next_session_id, messages, wiki_language, gemini_api_key, aside>>

RetrieveK == 5

\* Retrieve citing the section of every chunk of the article
Retrieve_AllSections(f) ==
    LET msgs == list_messages(f.session_id)
        pairs == history_pairs_of(msgs)
        hist_texts == [i \in 1..Len(pairs) |-> pairs[i][1]]
        top_chunks == retrieve_top_k(f.chunks, f.question, hist_texts, RetrieveK)
        citations == [article |-> [title |-> f.title, url |-> f.url],
                      sections |-> [i \in 1..Len(f.chunks) |-> f.chunks[i].section]]
        g == [f EXCEPT !.history_pairs = pairs, !.top_chunks = top_chunks,
                       !.retrieved = top_chunks, !.citations = citations,
                       !.trace = @ \o <<"list_messages", "retrieve">>]
    IN IF available
       THEN [g EXCEPT !.pc = "chat",
                      !.prompt = build_messages(f.question, pairs, top_chunks, f.title, f.url)]
       ELSE [g EXCEPT !.pc = "extractive"]

\* Retrieve going to the model whether or not the client is configured
Retrieve_AlwaysChat(f) ==
    LET msgs == list_messages(f.session_id)
        pairs == history_pairs_of(msgs)
        hist_texts == [i \in 1..Len(pairs) |-> pairs[i][1]]
        top_chunks == retrieve_top_k(f.chunks, f.question, hist_texts, RetrieveK)
        citations == [article |-> [title |-> f.title, url |-> f.url],
                      sections |-> [i \in 1..Len(top_chunks) |-> top_chunks[i].section]]
        g == [f EXCEPT !.history_pairs = pairs, !.top_chunks = top_chunks,
                       !.retrieved = top_chunks, !.citations = citations,
                       !.trace = @ \o <<"list_messages", "retrieve">>]
    IN [g EXCEPT !.pc = "chat",
                 !.prompt = build_messages(f.question, pairs, top_chunks, f.title, f.url)]

\* answer_question from list_messages to the citations dict: history pairs,
\* retrieval, citations, and the prompt when the model is configured
Retrieve(f) ==
    LET msgs == list_messages(f.session_id)
        pairs == history_pairs_of(msgs)
        hist_texts == [i \in 1..Len(pairs) |-> pairs[i][1]]
        top_chunks == retrieve_top_k(f.chunks, f.question, hist_texts, RetrieveK)
        citations == [article |-> [title |-> f.title, url |-> f.url],
                      sections |-> [i \in 1..Len(top_chunks) |-> top_chunks[i].section]]
        g == [f EXCEPT !.history_pairs = pairs, !.top_chunks = top_chunks,
                       !.retrieved = top_chunks, !.citations = citations,
                       !.trace = @ \o <<"list_messages", "retrieve">>]
    IN IF available
       THEN [g EXCEPT !.pc = "chat",
                      !.prompt = build_messages(f.question, pairs, top_chunks, f.title, f.url)]
       ELSE [g EXCEPT !.pc = "extractive"]

aq_list_messages(t) ==
    /\ call[t].pc = "list_messages"
    /\ call' = [call EXCEPT ![t] = Retrieve(@)]
    /\ UNCHANGED <<Others, articles>>

\* Assemble marking the citations external whenever the search was issued
Assemble_WheneverSearched(f) ==
    LET citations == IF f.searched # {} THEN f.citations @@ [external |-> TRUE]
                     ELSE f.citations
    IN [f EXCEPT !.pc = "done", !.citations = citations,
                 !.result = [kind |-> "return", error |-> "", answer |-> f.answer,
                             citations |-> citations]]

\* citations["external"] = True when the search gave the answer; return
Assemble(f) ==
    LET citations == IF f.used_external THEN f.citations @@ [external |-> TRUE]
                     ELSE f.citations
    IN [f EXCEPT !.pc = "done", !.citations = citations,
                 !.result = [kind |-> "return", error |-> "", answer |-> f.answer,
                             citations |-> citations]]

\* the condition of the external search
SearchCond(f) == f.top_chunks = <<>> /\ (f.answer = <<>> \/ IsBlank(f.answer))

\* where answer_question goes once the model branch is over: the second
\* `if not self.llm.available()`, then the condition of the search
AfterModel(f) ==
    IF ~available THEN [f EXCEPT !.pc = "extractive"]
    ELSE IF SearchCond(f) THEN [f EXCEPT !.pc = "search"]
    ELSE Assemble(f)

\* the model has answered `data`: the answer, and the chunks dropped when it is blank
ModelAnswered(f, data) ==
    LET answer == ChatText(data)
        g == [f EXCEPT !.answer = answer, !.reply = {answer}, !.answer_by = "model"]
    IN AfterModel(IF IsBlank(answer) THEN [g EXCEPT !.top_chunks = <<>>] ELSE g)

\* llm.chat(messages): the first generateContent request is answered, is
\* refused with HTTP 400/404 (the request is then sent again with the system
\* text as a user turn), or fails otherwise and the error leaves the call
\* chat raises at once when the client is not configured.
aq_chat(t) ==
    /\ call[t].pc = "chat"
    /\ IF ~available
       THEN call' = [call EXCEPT ![t] = Raise(Step(@, "done", "chat"), ErrNotConfigured)]
       ELSE \/ \E data \in GeminiResponses :
                  call' = [call EXCEPT ![t] = ModelAnswered(Step(@, "chat", "chat"), data)]
            \/ call' = [call EXCEPT ![t] = Step(@, "chat_fallback", "chat")]
            \/ call' = [call EXCEPT ![t] = Raise(Step(@, "done", "chat"), ErrTransport)]
    /\ UNCHANGED <<Others, articles>>

\* _chat_gemini: the second request, after HTTP 400/404
aq_chat_fallback(t) ==
    /\ call[t].pc = "chat_fallback"
    /\ \/ \E data \in GeminiResponses :
             call' = [call EXCEPT ![t] =
                        ModelAnswered(Step(@, "chat_fallback", "chat_fallback"), data)]
       \/ call' = [call EXCEPT ![t] = Raise(Step(@, "done", "chat_fallback"), ErrTransport)]
    /\ UNCHANGED <<Others, articles>>

\* the extractive branch, then the condition of the search
Extractive(f) ==
    LET g == [Step(f, "extractive", "extractive") EXCEPT
                 !.answer = ExtractiveAnswer(f.top_chunks), !.answer_by = "extractive"]
    IN IF SearchCond(g) THEN [g EXCEPT !.pc = "search"] ELSE Assemble(g)

aq_extractive(t) ==
    /\ call[t].pc = "extractive"
    /\ call' = [call EXCEPT ![t] = Extractive(@)]
    /\ UNCHANGED <<Others, articles>>

\* Searched building the link list from whatever was collected before the
\* loop raised, and flagging the answer external even without a result
Searched_Unguarded(f, out) ==
    LET r == CollectResults(out.related)
        g == [Step(f, "search", "search") EXCEPT
                 !.searched = {[raised |-> out.error \/ r.raised, usable |-> Len(r.results)]},
                 !.before_search = f.answer]
    IN IF out.error THEN Assemble(g)
       ELSE Assemble([g EXCEPT !.answer = ExternalAnswer(r.results), !.used_external = TRUE,
                               !.answer_by = "external"])

\* the external search answered `out`: the link list when a result was
\* collected, nothing when the request or the loop raised
Searched(f, out) ==
    LET r == CollectResults(out.related)
        g == [Step(f, "search", "search") EXCEPT
                 !.searched = {[raised |-> out.error \/ r.raised, usable |-> Len(r.results)]},
                 !.before_search = f.answer]
    IN IF out.error \/ r.raised \/ r.results = <<>> THEN Assemble(g)
       ELSE Assemble([g EXCEPT !.answer = ExternalAnswer(r.results), !.used_external = TRUE,
                               !.answer_by = "external"])

aq_search(t) ==
    /\ call[t].pc = "search"
    /\ \E out \in SearchOutcomes : call' = [call EXCEPT ![t] = Searched(@, out)]
    /\ UNCHANGED <<Others, articles>>

\* the caller takes what the call returned or raised; the frame is gone
call_returns(t) ==
    /\ call[t].pc = "done"
    /\ call' = [call EXCEPT ![t] = IdleFrame]
    /\ UNCHANGED <<Others, articles>>

\* ------------------------------------------------------ the specification

\* a frame at "done" is the instant of the return: the caller takes the
\* result before anything else runs
Returning == \E t \in Threads : call[t].pc = "done"

TitleArgs == Titles \cup {None_, ""}

UrlArgs(title) == IF title = "Turing" THEN {UrlEn} ELSE {None_}

StoreOp ==
    \/ \E l \in Languages : create_session(l)
    \/ \E sid \in SessionArgs, title \in TitleArgs : \E url \in UrlArgs(title) :
          set_session_article(sid, title, url)
    \/ \E sid \in SessionArgs, l \in Languages : set_session_language(sid, l)
    \/ \E sid \in SessionArgs : delete_session(sid)
    \/ \E sid \in SessionArgs, text \in UserTexts : add_message(sid, "user", text)
    \/ \E sid \in SessionArgs, text \in AssistantTexts : add_message(sid, "assistant", text)

Next ==
    \/ ~Returning /\ StoreOp
    \/ \E t \in Threads : call_returns(t)
    \/ \E t \in Threads, sid \in SessionArgs, q \in Questions : call_answer_question(t, sid, q)
    \/ \E t \in Threads, title \in Titles, l \in Languages : call_ensure_article_cached(t, title, l)
    \/ \E t \in Threads : aq_get_session(t)
    \/ \E t \in Threads : eac_get_article(t)
    \/ \E t \in Threads : eac_set_language(t)
    \/ \E t \in Threads : eac_fetch(t)
    \/ \E t \in Threads : eac_upsert(t)
    \/ \E t \in Threads : aq_list_messages(t)
    \/ \E t \in Threads : aq_chat(t)
    \/ \E t \in Threads : aq_chat_fallback(t)
    \/ \E t \in Threads : aq_extractive(t)
    \/ \E t \in Threads : aq_search(t)

Spec == Init /\ [][Next]_vars

\* ------------------------------------------- the presentation layer

\* the worker threads the window starts, in the order it takes them
Workers == <<"t1", "t2">>

\* questions the user sends in a run
MaxSends == 2

Sent == Len(SelectSeq(messages, LAMBDA r : r.role = "user"))

\* the window open on session 1, whose article is selected and not yet cached
InitGui ==
    /\ sessions = (1 :> [language |-> "en", article_title |-> "Turing", article_url |-> UrlEn])
    /\ next_session_id = 2
    /\ messages = <<>>
    /\ articles = <<>>
    /\ fetch_log = {}
    /\ wiki_language = "en"
    /\ gemini_api_key \in {None_, "key"}
    /\ call = [t \in Range(Workers) |-> IdleFrame]
    /\ current_session_id = {1}
    /\ network_queue = <<>>
    /\ status = StatusReady
    /\ NoCaller
    /\ probe = NoProbe

\* the thread threading.Thread(...).start() creates: the first one not running
FreeWorker ==
    LET free == {i \in DOMAIN Workers : call[Workers[i]].pc = "idle"}
    IN Workers[CHOOSE i \in free : \A j \in free : i <= j]

\* _send_clicked: the user message is stored, the status is set and a worker
\* is started
send_clicked(msg) ==
    /\ current_session_id # {}
    /\ The(current_session_id) \in DOMAIN sessions
    /\ Sent < MaxSends
    /\ \E i \in DOMAIN Workers : call[Workers[i]].pc = "idle"
    /\ messages' = Append(messages, [session_id |-> The(current_session_id),
                                      role |-> "user", text |-> msg])
    /\ call' = [call EXCEPT ![FreeWorker] =
                  [IdleFrame EXCEPT !.pc = "work", !.question = msg,
                                    !.origin = current_session_id,
                                    !.sent_at = Len(messages) + 1]]
    /\ status' = StatusThinking
    /\ UNCHANGED <<sessions, next_session_id, articles, wiki_language, gemini_api_key,
                   fetch_log, current_session_id, network_queue, db_lock, db_call,
                   article_rows, probe>>

\* work(): the worker reads self.current_session_id and calls answer_question
work_starts(t) ==
    /\ call[t].pc = "work"
    /\ call' = [call EXCEPT ![t] =
                  [@ EXCEPT !.pc = "get_session", !.entry = "answer_question",
                            !.session_id = IF current_session_id = {} THEN 0
                                           ELSE The(current_session_id)]]
    /\ UNCHANGED <<Others, articles>>

\* the event work() puts on the queue for what answer_question gave
Event(result) ==
    IF result.kind = "return"
    THEN [kind |-> "answer", answer |-> result.answer, citations |-> result.citations,
          error |-> ""]
    ELSE [kind |-> "error", answer |-> <<>>, citations |-> NoCitations, error |-> result.error]

\* the event of the call f, with a record of the question it is for: the place
\* of the question's user message in the messages table, and the session that
\* was current when it was sent
Put(f) == Event(f.result) @@ [sent_at |-> f.sent_at, origin |-> f.origin]

\* work() putting nothing on the queue when answer_question raised
work_ends_SilentError(t) ==
    /\ call[t].pc = "done"
    /\ network_queue' = IF call[t].result.kind = "return"
                        THEN Append(network_queue, Put(call[t]))
                        ELSE network_queue
    /\ call' = [call EXCEPT ![t] = IdleFrame]
    /\ UNCHANGED <<sessions, next_session_id, messages, articles, wiki_language,
                   gemini_api_key, fetch_log, current_session_id, status, db_lock, db_call,
                   article_rows, probe>>

\* work(): network_queue.put(...), and the thread ends
work_ends(t) ==
    /\ call[t].pc = "done"
    /\ network_queue' = Append(network_queue, Put(call[t]))
    /\ call' = [call EXCEPT ![t] = IdleFrame]
    /\ UNCHANGED <<sessions, next_session_id, messages, articles, wiki_language,
                   gemini_api_key, fetch_log, current_session_id, status, db_lock, db_call,
                   article_rows, probe>>

\* list_sessions()[0]: sessions come most recent first
Newest(sess) == CHOOSE k \in DOMAIN sess : \A j \in DOMAIN sess : j <= k

StatusLoading == "Loading article..."

StatusLoaded(title) == IF title = "Turing" THEN "Loaded: Turing" ELSE "Loaded: Berlin"

\* the loop of _poll_queue over the events waiting: an answer is stored as an
\* assistant message of the current session and the status set to "Ready",
\* an article event sets the status to "Loaded: <title>", an error sets it to
\* "Error"; after an answer and after an article event
\* _refresh_session_label_article reloads the sessions list, and
\* _load_sessions makes its first entry the current session. add_message
\* raising (no such session) leaves the loop with the events behind it still
\* queued. The stored row keeps a record (reply_to) of the question the
\* answer was produced for.
RECURSIVE Polled(_, _, _, _)
Polled(queue, msgs, st, cur) ==
    IF queue = <<>> THEN [queue |-> <<>>, messages |-> msgs, status |-> st, current |-> cur]
    ELSE LET e == Head(queue)
         IN IF e.kind = "answer"
            THEN IF cur # {} /\ The(cur) \in DOMAIN sessions
                 THEN Polled(Tail(queue),
                             Append(msgs, [session_id |-> The(cur),
                                           role |-> "assistant", text |-> e.answer,
                                           reply_to |-> e.sent_at]),
                             StatusReady, {Newest(sessions)})
                 ELSE [queue |-> Tail(queue), messages |-> msgs, status |-> st, current |-> cur]
            ELSE IF e.kind = "article"
            THEN Polled(Tail(queue), msgs, StatusLoaded(e.title), {Newest(sessions)})
            ELSE Polled(Tail(queue), msgs, StatusError, cur)

\* _poll_queue with events waiting (with none it changes nothing and
\* schedules itself again)
poll_queue ==
    /\ network_queue # <<>>
    /\ LET after == Polled(network_queue, messages, status, current_session_id)
       IN /\ network_queue' = after.queue
          /\ messages' = after.messages
          /\ status' = after.status
          /\ current_session_id' = after.current
    /\ UNCHANGED <<sessions, next_session_id, articles, wiki_language, gemini_api_key, call,
                   fetch_log, db_lock, db_call, article_rows, probe>>

NextGui ==
    \/ \E msg \in Questions : send_clicked(msg)
    \/ poll_queue
    \/ \E i \in DOMAIN Workers : work_starts(Workers[i])
    \/ \E i \in DOMAIN Workers : work_ends(Workers[i])
    \/ \E i \in DOMAIN Workers : aq_get_session(Workers[i])
    \/ \E i \in DOMAIN Workers : eac_get_article(Workers[i])
    \/ \E i \in DOMAIN Workers : eac_set_language(Workers[i])
    \/ \E i \in DOMAIN Workers : eac_fetch(Workers[i])
    \/ \E i \in DOMAIN Workers : eac_upsert(Workers[i])
    \/ \E i \in DOMAIN Workers : aq_list_messages(Workers[i])
    \/ \E i \in DOMAIN Workers : aq_chat(Workers[i])
    \/ \E i \in DOMAIN Workers : aq_chat_fallback(Workers[i])
    \/ \E i \in DOMAIN Workers : aq_extractive(Workers[i])
    \/ \E i \in DOMAIN Workers : aq_search(Workers[i])

SpecGui == InitGui /\ [][NextGui]_vars

\* the worker thread t takes a step
Runs(t) == call[t].pc # "idle" /\ call'[t] # call[t]

\* weak fairness of the steps of the worker thread t (work_starts, the steps
\* of its engine call, work_ends), written out: one of them is enabled
\* exactly while the thread is started, and only they change the frame of a
\* started thread. The thread is scheduled until it ends, and its engine
\* call returns or raises.
WorkerFair(t) == []<>(call[t].pc = "idle") \/ []<><<Runs(t)>>_vars

\* the window with its main loop running: _poll_queue schedules itself again
\* every 100 ms (root.after in its `finally`), and every started thread runs
SpecGuiFair ==
    /\ SpecGui
    /\ WF_vars(poll_queue)
    /\ \A i \in DOMAIN Workers : WorkerFair(Workers[i])

\* ------------------------- the window with its sessions list and Load

\* the threads _load_article_clicked starts; each is started once
Loaders == <<"l1", "l2">>

\* the Wikipedia URLs the user pastes into the article field
LoadUrls == {UrlEn, UrlBerlinDe}

\* parse_wikipedia_url(url) for the URLs above: (language, title)
parse_wikipedia_url(url) ==
    IF url = UrlEn THEN <<"en", "Turing">>
    ELSE IF url = UrlBerlinDe THEN <<"de", "Berlin">>
    ELSE <<"en", "Berlin">>

\* questions sent in a run of the window
MaxAsked == 1

\* the window open on session 1, whose article is selected and not yet
\* cached; no model is configured
InitWindow ==
    /\ sessions = (1 :> [language |-> "en", article_title |-> "Turing", article_url |-> UrlEn])
    /\ next_session_id = 2
    /\ messages = <<>>
    /\ articles = <<>>
    /\ fetch_log = {}
    /\ wiki_language = "en"
    /\ gemini_api_key = None_
    /\ call = [t \in Range(Workers) \cup Range(Loaders) |-> IdleFrame]
    /\ current_session_id = {1}
    /\ network_queue = <<>>
    /\ status = StatusReady
    /\ NoCaller
    /\ probe = NoProbe

\* the user picks another entry of the sessions list: _on_select_session,
\* _select_session_by_index
select_session(sid) ==
    /\ sid \in DOMAIN sessions
    /\ current_session_id # {sid}
    /\ current_session_id' = {sid}
    /\ UNCHANGED <<sessions, next_session_id, messages, articles, wiki_language,
                   gemini_api_key, call, fetch_log, network_queue, status, db_lock, db_call,
                   article_rows, probe>>

\* _new_session: create_session, _load_sessions, and the new session selected
new_session ==
    /\ next_session_id <= MaxSessions
    /\ sessions' = [k \in DOMAIN sessions \cup {next_session_id} |->
                      IF k = next_session_id
                      THEN [language |-> "en", article_title |-> None_, article_url |-> None_]
                      ELSE sessions[k]]
    /\ next_session_id' = next_session_id + 1
    /\ current_session_id' = {next_session_id}
    /\ UNCHANGED <<messages, articles, wiki_language, gemini_api_key, call, fetch_log,
                   network_queue, status, db_lock, db_call, article_rows, probe>>

\* _delete_session: the selected session is deleted with its messages, and
\* _load_sessions selects the first of those left (with none left it would
\* create one: the last session is not deleted here)
delete_session_clicked ==
    /\ current_session_id # {}
    /\ DOMAIN sessions \ current_session_id # {}
    /\ sessions' = [k \in DOMAIN sessions \ current_session_id |-> sessions[k]]
    /\ messages' = SelectSeq(messages, LAMBDA r : r.session_id \notin current_session_id)
    /\ current_session_id' = {Newest(sessions')}
    /\ UNCHANGED <<next_session_id, articles, wiki_language, gemini_api_key, call, fetch_log,
                   network_queue, status, db_lock, db_call, article_rows, probe>>

\* the thread a Load starts: the first loader not started yet
FreeLoader ==
    LET free == {i \in DOMAIN Loaders : call[Loaders[i]].pc = "idle"}
    IN Loaders[CHOOSE i \in free : \A j \in free : i <= j]

\* _load_article_clicked: the status is set and a worker is started with the
\* text of the article field
load_article_clicked(url_text) ==
    /\ current_session_id # {}
    /\ \E i \in DOMAIN Loaders : call[Loaders[i]].pc = "idle"
    /\ call' = [call EXCEPT ![FreeLoader] =
                  [IdleFrame EXCEPT !.pc = "load", !.entry = "load_article",
                                    !.url = url_text, !.origin = current_session_id]]
    /\ status' = StatusLoading
    /\ UNCHANGED <<sessions, next_session_id, messages, articles, wiki_language,
                   gemini_api_key, fetch_log, current_session_id, network_queue, db_lock,
                   db_call, article_rows, probe>>

\* work() of the Load: parse_wikipedia_url, then self.wiki.language = lang
load_set_language(t) ==
    /\ call[t].pc = "load"
    /\ wiki_language' = parse_wikipedia_url(call[t].url)[1]
    /\ call' = [call EXCEPT ![t] =
                  [Step(@, "fetch", "set_language") EXCEPT
                      !.language = parse_wikipedia_url(call[t].url)[1],
                      !.article_title = parse_wikipedia_url(call[t].url)[2]]]
    /\ UNCHANGED <<sessions, next_session_id, messages, articles, gemini_api_key, fetch_log,
                   aside>>

\* work() of the Load: fetch_page_extract(title) on the shared client; the
\* request fails, or is answered for the client's language; no page raises
load_fetch(t) ==
    /\ call[t].entry = "load_article" /\ call[t].pc = "fetch"
    /\ \/ call' = [call EXCEPT ![t] =
                     Raise([Step(@, "done", "fetch") EXCEPT !.fetched = "error"], ErrTransport)]
       \/ call' = [call EXCEPT ![t] =
                     AfterFetch(@, fetch_page_extract(wiki_language, call[t].article_title))]
    /\ UNCHANGED <<Others, articles>>

\* work() of the Load: upsert_article(real_title, lang, ...)
load_upsert(t) ==
    /\ call[t].entry = "load_article" /\ call[t].pc = "upsert"
    /\ articles' = UpsertFetched(call[t])
    /\ fetch_log' = fetch_log \cup {<<call[t].article_title, call[t].language>>}
    /\ call' = [call EXCEPT ![t] =
                  [Step(@, "set_session_article", "upsert") EXCEPT
                      !.title = The(call[t].data).title,
                      !.url = The(call[t].data).url]]
    /\ UNCHANGED <<sessions, next_session_id, messages, wiki_language, gemini_api_key, aside>>

\* work() of the Load: set_session_article(self.current_session_id, ...); an
\* UPDATE of a session that does not exist changes no row
load_set_session_article(t) ==
    /\ call[t].pc = "set_session_article"
    /\ sessions' = [k \in DOMAIN sessions |->
                      IF k \in current_session_id
                      THEN [sessions[k] EXCEPT !.article_title = call[t].title,
                                               !.article_url = call[t].url]
                      ELSE sessions[k]]
    /\ call' = [call EXCEPT ![t] =
                  [Step(@, "set_session_language", "set_session_article") EXCEPT
                      !.title_to = current_session_id]]
    /\ UNCHANGED <<next_session_id, messages, articles, wiki_language, gemini_api_key,
                   fetch_log, aside>>

\* work() of the Load: set_session_language(self.current_session_id, lang)
load_set_session_language(t) ==
    /\ call[t].pc = "set_session_language"
    /\ sessions' = [k \in DOMAIN sessions |->
                      IF k \in current_session_id
                      THEN [sessions[k] EXCEPT !.language = call[t].language]
                      ELSE sessions[k]]
    /\ call' = [call EXCEPT ![t] =
                  [Step(@, "done", "set_session_language") EXCEPT
                      !.language_to = current_session_id,
                      !.result = [NoResult EXCEPT !.kind = "return"]]]
    /\ UNCHANGED <<next_session_id, messages, articles, wiki_language, gemini_api_key,
                   fetch_log, aside>>

\* the event work() of the Load puts on the queue
Loaded(f) ==
    IF f.result.kind = "return"
    THEN [kind |-> "article", answer |-> <<>>, citations |-> NoCitations, error |-> "",
          sent_at |-> 0, title |-> f.title]
    ELSE [kind |-> "error", answer |-> <<>>, citations |-> NoCitations,
          error |-> f.result.error, sent_at |-> 0]

\* work() of the Load: network_queue.put(...), and the thread ends
load_ends(t) ==
    /\ call[t].entry = "load_article" /\ call[t].pc = "done"
    /\ network_queue' = Append(network_queue, Loaded(call[t]))
    /\ call' = [call EXCEPT ![t].pc = "ended"]
    /\ UNCHANGED <<sessions, next_session_id, messages, articles, wiki_language,
                   gemini_api_key, fetch_log, current_session_id, status, db_lock, db_call,
                   article_rows, probe>>

\* an answer worker takes a step (with no model configured the call never
\* gets to the search)
AnswerStep(t) ==
    \/ work_starts(t)
    \/ aq_get_session(t)
    \/ eac_get_article(t)
    \/ eac_set_language(t)
    \/ eac_fetch(t)
    \/ eac_upsert(t)
    \/ aq_list_messages(t)
    \/ aq_extractive(t)
    \/ work_ends(t)

\* a Load is running
Loading == \E i \in DOMAIN Loaders : call[Loaders[i]].pc \notin {"idle", "ended"}

\* a question is being answered
Asking == \E i \in DOMAIN Workers : call[Workers[i]].pc # "idle"

\* a thread of a Load takes a step
LoadStep(t) ==
    \/ load_set_language(t)
    \/ load_fetch(t)
    \/ load_upsert(t)
    \/ load_set_session_article(t)
    \/ load_set_session_language(t)
    \/ load_ends(t)

\* the window where the user works with the sessions list while one question
\* and one Load run
NextWindow ==
    \/ Sent < MaxAsked /\ send_clicked(<<"b", "?">>)
    \/ poll_queue
    \/ \E sid \in 1..MaxSessions : select_session(sid)
    \/ new_session
    \/ delete_session_clicked
    \/ \E url \in LoadUrls : call[Loaders[1]].pc = "idle" /\ load_article_clicked(url)
    \/ LoadStep(Loaders[1])
    \/ \E i \in DOMAIN Workers : AnswerStep(Workers[i])

SpecWindow == InitWindow /\ [][NextWindow]_vars

\* the window on one session where the user starts Loads one after the other
\* without waiting, and asks a question when no Load is running
NextLoads ==
    \/ \E url \in LoadUrls : ~Asking /\ load_article_clicked(url)
    \/ ~Loading /\ Sent < MaxAsked /\ send_clicked(<<"b", "?">>)
    \/ poll_queue
    \/ \E i \in DOMAIN Loaders : LoadStep(Loaders[i])
    \/ \E i \in DOMAIN Workers : AnswerStep(Workers[i])

SpecLoads == InitWindow /\ [][NextLoads]_vars

\* ------------------------------------------------- the store's lock

\* a Database method and its arguments (those it does not take are None)
Op(method, session_id, title, language, role, text) ==
    [method |-> method, session_id |-> session_id, title |-> title, language |-> language,
     role |-> role, text |-> text]

NoOp == Op("", 0, None_, None_, None_, <<>>)

Writes ==
    {Op("create_session", 0, None_, "en", None_, <<>>)}
    \cup {Op("set_session_article", sid, "Turing", None_, None_, <<>>) : sid \in SessionIds}
    \cup {Op("delete_session", sid, None_, None_, None_, <<>>) : sid \in SessionIds}
    \cup {Op("add_message", sid, None_, None_, "user", text) : sid \in SessionIds, text \in UserTexts}
    \cup {Op("upsert_article", 0, "Turing", "en", None_, text) : text \in {TextEn, <<>>}}

Reads ==
    {Op("get_session", sid, None_, None_, None_, <<>>) : sid \in SessionIds}
    \cup {Op("list_messages", sid, None_, None_, None_, <<>>) : sid \in SessionIds}
    \cup {Op("get_article", 0, "Turing", "en", None_, <<>>)}

\* the statements with foreign_keys left off: a deleted session keeps its rows
Executed_NoCascade(op) ==
    LET same == [sessions |-> sessions, next_session_id |-> next_session_id,
                 messages |-> messages, articles |-> articles]
    IN CASE op.method = "create_session" ->
              [same EXCEPT !.sessions = [k \in DOMAIN sessions \cup {next_session_id} |->
                                           IF k = next_session_id
                                           THEN [language |-> op.language,
                                                 article_title |-> None_, article_url |-> None_]
                                           ELSE sessions[k]],
                           !.next_session_id = next_session_id + 1]
         [] op.method = "set_session_article" /\ op.session_id \in DOMAIN sessions ->
              [same EXCEPT !.sessions[op.session_id].article_title = op.title,
                           !.sessions[op.session_id].article_url = UrlEn]
         [] op.method = "delete_session" ->
              [same EXCEPT !.sessions = [k \in DOMAIN sessions \ {op.session_id} |-> sessions[k]]]
         [] op.method = "add_message" /\ op.session_id \in DOMAIN sessions ->
              [same EXCEPT !.messages = Append(messages, [session_id |-> op.session_id,
                                                          role |-> op.role, text |-> op.text])]
         [] op.method = "upsert_article" ->
              [same EXCEPT !.articles = upsert_article(op.title, op.language, 1, 11, UrlEn, op.text)]
         [] OTHER -> same

\* the tables after the statement of a method has been executed on the
\* connection; a statement the schema refuses changes nothing
Executed(op) ==
    LET same == [sessions |-> sessions, next_session_id |-> next_session_id,
                 messages |-> messages, articles |-> articles]
    IN CASE op.method = "create_session" ->
              [same EXCEPT !.sessions = [k \in DOMAIN sessions \cup {next_session_id} |->
                                           IF k = next_session_id
                                           THEN [language |-> op.language,
                                                 article_title |-> None_, article_url |-> None_]
                                           ELSE sessions[k]],
                           !.next_session_id = next_session_id + 1]
         [] op.method = "set_session_article" /\ op.session_id \in DOMAIN sessions ->
              [same EXCEPT !.sessions[op.session_id].article_title = op.title,
                           !.sessions[op.session_id].article_url = UrlEn]
         [] op.method = "delete_session" ->
              [same EXCEPT !.sessions = [k \in DOMAIN sessions \ {op.session_id} |-> sessions[k]],
                           !.messages = SelectSeq(messages,
                                                  LAMBDA r : r.session_id # op.session_id)]
         [] op.method = "add_message" /\ op.session_id \in DOMAIN sessions ->
              [same EXCEPT !.messages = Append(messages, [session_id |-> op.session_id,
                                                          role |-> op.role, text |-> op.text])]
         [] op.method = "upsert_article" ->
              [same EXCEPT !.articles = upsert_article(op.title, op.language, 1, 11, UrlEn, op.text)]
         [] OTHER -> same

OutOfStore == [pc |-> "out", op |-> NoOp]

InitDb ==
    /\ EmptyStore /\ Standby /\ NoWindow
    /\ db_lock = Unlocked
    /\ db_call = [t \in Range(Workers) |-> OutOfStore]
    /\ article_rows = <<>>
    /\ probe = NoProbe

\* what a step inside the store leaves alone
Outside == <<wiki_language, gemini_api_key, call, fetch_log, current_session_id,
             network_queue, status, article_rows, probe>>

Tables == <<sessions, next_session_id, messages, articles>>

\* a thread calls a method of the Database
db_calls(t, op) ==
    /\ db_call[t].pc = "out"
    /\ op.method = "create_session" => next_session_id \in SessionIds
    /\ op.method = "add_message" => Len(messages) < MaxMessages
    /\ db_call' = [db_call EXCEPT ![t] = [pc |-> "with", op |-> op]]
    /\ UNCHANGED <<Tables, db_lock, Outside>>

\* RLock.acquire() without the test of the owner
CanAcquire_NoLock(t) == TRUE

\* RLock.acquire(): free, or already held by the caller
CanAcquire(t) == db_lock.owner \in {None_, t}

\* `with self._lock:` entered
db_acquire(t) ==
    /\ db_call[t].pc = "with"
    /\ CanAcquire(t)
    /\ db_lock' = [owner |-> t, count |-> db_lock.count + 1]
    /\ db_call' = [db_call EXCEPT ![t].pc = "locked"]
    /\ UNCHANGED <<Tables, Outside>>

\* the statement of the method, on the shared connection
db_execute(t) ==
    /\ db_call[t].pc = "locked"
    /\ sessions' = Executed(db_call[t].op).sessions
    /\ next_session_id' = Executed(db_call[t].op).next_session_id
    /\ messages' = Executed(db_call[t].op).messages
    /\ articles' = Executed(db_call[t].op).articles
    /\ db_call' = [db_call EXCEPT ![t].pc = "executed"]
    /\ UNCHANGED <<db_lock, Outside>>

\* commit or fetch, then the `with` block is left and the lock released
db_release(t) ==
    /\ db_call[t].pc = "executed"
    /\ db_lock' = IF db_lock.count <= 1 THEN Unlocked
                  ELSE [db_lock EXCEPT !.count = @ - 1]
    /\ db_call' = [db_call EXCEPT ![t] = OutOfStore]
    /\ UNCHANGED <<Tables, Outside>>

NextDb ==
    \/ \E i \in DOMAIN Workers, op \in Writes \cup Reads : db_calls(Workers[i], op)
    \/ \E i \in DOMAIN Workers : db_acquire(Workers[i])
    \/ \E i \in DOMAIN Workers : db_execute(Workers[i])
    \/ \E i \in DOMAIN Workers : db_release(Workers[i])

SpecDb == InitDb /\ [][NextDb]_vars

\* ------------------------------------------- the message log, by itself

InitLog == EmptyStore /\ Standby /\ Quiet

\* a method of the Database run from `with self._lock:` to its return
Database_call(op) ==
    /\ sessions' = Executed(op).sessions
    /\ next_session_id' = Executed(op).next_session_id
    /\ messages' = Executed(op).messages
    /\ articles' = Executed(op).articles
    /\ UNCHANGED <<wiki_language, gemini_api_key, call, fetch_log, aside>>

Database_create_session ==
    /\ next_session_id <= MaxSessions
    /\ Database_call(Op("create_session", 0, None_, "en", None_, <<>>))

Database_add_message ==
    /\ Len(messages) < MaxRows
    /\ \E sid \in 1..MaxSessions, role \in {"user", "assistant"} :
          Database_call(Op("add_message", sid, None_, None_, role, <<"b">>))

Database_delete_session ==
    \E sid \in 1..MaxSessions : Database_call(Op("delete_session", sid, None_, None_, None_, <<>>))

NextLog == Database_create_session \/ Database_add_message \/ Database_delete_session

SpecLog == InitLog /\ [][NextLog]_vars

\* --------------------------------- the articles table, row by row

\* the cache keys and the pages upserted: two titles that differ in case
\* only, two languages, two versions of a page (the second without url), and
\* the times now_iso() gives
CacheKeys == {<<"Turing", "en">>, <<"turing", "en">>, <<"Turing", "de">>}

PageVersions ==
    { [pageid |-> 1, revision_id |-> 11, url |-> UrlEn, content |-> TextEn],
      [pageid |-> 2, revision_id |-> 12, url |-> None_, content |-> <<"b">>] }

Timestamps == {"2024-01-01T00:00:00", "2024-01-02T00:00:00"}

\* the rows a key selects: WHERE title=? AND language=?
RowsOf(rows, title, language) ==
    {i \in DOMAIN rows : rows[i].title = title /\ rows[i].language = language}

\* the statement of upsert_article on the table `rows`: the INSERT gives the
\* new row the next id; on a conflict with the row that UNIQUE(title,
\* language) names, that row's pageid, revision_id, url, fetched_at and
\* content are set instead
upsert_article_sql_KeepsUrl(rows, title, language, pageid, revision_id, url, ts, content) ==
    LET hit == RowsOf(rows, title, language)
    IN IF hit = {}
       THEN Append(rows, [id |-> Len(rows) + 1, title |-> title, language |-> language,
                          pageid |-> pageid, revision_id |-> revision_id, url |-> url,
                          fetched_at |-> ts, content |-> content])
       ELSE [i \in DOMAIN rows |->
               IF i \in hit
               THEN [rows[i] EXCEPT !.pageid = pageid, !.revision_id = revision_id,
                                    !.fetched_at = ts, !.content = content]
               ELSE rows[i]]

upsert_article_sql(rows, title, language, pageid, revision_id, url, ts, content) ==
    LET hit == RowsOf(rows, title, language)
    IN IF hit = {}
       THEN Append(rows, [id |-> Len(rows) + 1, title |-> title, language |-> language,
                          pageid |-> pageid, revision_id |-> revision_id, url |-> url,
                          fetched_at |-> ts, content |-> content])
       ELSE [i \in DOMAIN rows |->
               IF i \in hit
               THEN [rows[i] EXCEPT !.pageid = pageid, !.revision_id = revision_id,
                                    !.url = url, !.fetched_at = ts, !.content = content]
               ELSE rows[i]]

\* the SELECT of get_article on the table `rows` and cur.fetchone(): None, or
\* the dict of the first row selected
get_article_sql(rows, title, language) ==
    LET hit == RowsOf(rows, title, language)
    IN IF hit = {} THEN {}
       ELSE LET row == rows[CHOOSE i \in hit : \A j \in hit : i <= j]
            IN {[title |-> row.title, language |-> row.language, pageid |-> row.pageid,
                 revision_id |-> row.revision_id, url |-> row.url,
                 fetched_at |-> row.fetched_at, content |-> row.content]}

InitCache ==
    /\ EmptyStore /\ Standby /\ NoWindow /\ NoCaller
    /\ probe = NoProbe

\* what a step on the rows of the articles table leaves alone
Shelf == <<sessions, next_session_id, messages, articles, wiki_language, gemini_api_key, call,
           fetch_log, current_session_id, network_queue, status, db_lock, db_call>>

\* db.upsert_article(title, language, pageid, revision_id, url, content)
upsert_article_called(key, page, ts) ==
    /\ article_rows' = upsert_article_sql(article_rows, key[1], key[2], page.pageid,
                                          page.revision_id, page.url, ts, page.content)
    /\ probe' = [fn |-> "upsert_article", pc |-> "done",
                 args |-> [title |-> key[1], language |-> key[2], page |-> page], out |-> <<>>]
    /\ UNCHANGED Shelf

\* db.get_article(title, language)
get_article_called(key) ==
    /\ probe' = [fn |-> "get_article", pc |-> "done",
                 args |-> [title |-> key[1], language |-> key[2]],
                 out |-> get_article_sql(article_rows, key[1], key[2])]
    /\ UNCHANGED <<Shelf, article_rows>>

NextCache ==
    \/ \E key \in CacheKeys, page \in PageVersions, ts \in Timestamps :
          upsert_article_called(key, page, ts)
    \/ \E key \in CacheKeys : get_article_called(key)

SpecCache == InitCache /\ [][NextCache]_vars

\* ------------------------------------- the pure functions, called alone

\* what a step of a function call leaves alone
Rest == <<sessions, next_session_id, messages, articles, wiki_language, gemini_api_key, call,
          fetch_log, current_session_id, network_queue, status, db_lock, db_call,
          article_rows>>

Called(fn, args) == [fn |-> fn, pc |-> "called", args |-> args, out |-> <<>>]

\* retrieve_top_k: chunk lists of up to MaxChunks chunks (two with the same
\* text, one matching in its section name only, one matching nowhere) and k
\* up to MaxK
MaxChunks == 3

MaxK == 2

ProbeChunks ==
    { Chunk(<<"s", "1">>, <<"b">>, 0, 0), Chunk(<<"s", "2">>, <<"b">>, 1, 1),
      Chunk(<<"s", "3">>, <<"c", " ", "b", " ", "c">>, 2, 2),
      Chunk(<<"b">>, <<"z">>, 3, 3), Chunk(<<"s", "5">>, <<"z">>, 4, 4) }

ProbeQueries == {<<"b">>, <<"c", " ", "b", "?">>}

ProbeHistories == {<<>>, << <<"c">> >>}

InitTopK ==
    /\ EmptyStore /\ Standby /\ NoWindow /\ NoCaller
    /\ probe \in {Called("retrieve_top_k", [chunks |-> c, query |-> q, history |-> h, k |-> k]) :
                     c \in SeqsUpTo(ProbeChunks, MaxChunks), q \in ProbeQueries,
                     h \in ProbeHistories, k \in 0..MaxK}

retrieve_top_k_returns ==
    /\ probe.fn = "retrieve_top_k" /\ probe.pc = "called"
    /\ probe' = [probe EXCEPT !.pc = "done",
                               !.out = retrieve_top_k(probe.args.chunks, probe.args.query,
                                                      probe.args.history, probe.args.k)]
    /\ UNCHANGED Rest

NextTopK == retrieve_top_k_returns

SpecTopK == InitTopK /\ [][NextTopK]_vars

\* the history loop: message logs of up to MaxLog rows
MaxLog == 4

ProbeRows ==
    { [session_id |-> 1, role |-> "user", text |-> <<"q", "1">>],
      [session_id |-> 1, role |-> "user", text |-> <<"q", "2">>],
      [session_id |-> 1, role |-> "assistant", text |-> <<"a", "1">>],
      [session_id |-> 1, role |-> "assistant", text |-> <<"a", "2">>] }

InitHistory ==
    /\ EmptyStore /\ Standby /\ NoWindow /\ NoCaller
    /\ probe \in {Called("history_pairs", [msgs |-> l]) : l \in SeqsUpTo(ProbeRows, MaxLog)}

history_pairs_returns ==
    /\ probe.fn = "history_pairs" /\ probe.pc = "called"
    /\ probe' = [probe EXCEPT !.pc = "done", !.out = history_pairs_of(probe.args.msgs)]
    /\ UNCHANGED Rest

NextHistory == history_pairs_returns

SpecHistory == InitHistory /\ [][NextHistory]_vars

\* build_messages: up to MaxPairs history pairs, with and without an answer
MaxPairs == 5

ProbePairs == { << <<"q", "1">>, <<"a", "1">> >>, << <<"q", "2">>, <<>> >> }

InitPrompt ==
    /\ EmptyStore /\ Standby /\ NoWindow /\ NoCaller
    /\ probe \in {Called("build_messages",
                          [question |-> q, history_pairs |-> h, chunks |-> c,
                           article_title |-> "Turing", article_url |-> u]) :
                     q \in Questions, h \in SeqsUpTo(ProbePairs, MaxPairs),
                     c \in SeqsUpTo(ProbeChunks, 1), u \in {None_, UrlEn}}

build_messages_returns ==
    /\ probe.fn = "build_messages" /\ probe.pc = "called"
    /\ probe' = [probe EXCEPT !.pc = "done",
                               !.out = build_messages(probe.args.question,
                                                      probe.args.history_pairs,
                                                      probe.args.chunks,
                                                      probe.args.article_title,
                                                      probe.args.article_url)]
    /\ UNCHANGED Rest

NextPrompt == build_messages_returns

SpecPrompt == InitPrompt /\ [][NextPrompt]_vars

\* split_into_chunks: texts of up to MaxLines lines, among them a blank line,
\* a short paragraph with blanks around and inside it, a heading, a heading
\* with an empty name, and two long paragraphs that reach the cap together
MaxLines == 3

\* a paragraph of n characters c
Para(n, c) == [i \in 1..n |-> c]

ProbeLines ==
    { <<>>, <<" ", "a", " ", " ", "b", ".", " ">>,
      <<"=", "=", " ", "H", " ", "=", "=">>, <<"=", "=", "=", "=">>, <<" ", "=", "=">>,
      Para(601, "x"), Para(599, "y") }

InitSplit ==
    /\ EmptyStore /\ Standby /\ NoWindow /\ NoCaller
    /\ probe \in {Called("split_into_chunks", [plain_text |-> Join(l, <<"\n">>)]) :
                     l \in SeqsUpTo(ProbeLines, MaxLines)}

split_into_chunks_returns ==
    /\ probe.fn = "split_into_chunks" /\ probe.pc = "called"
    /\ probe' = [probe EXCEPT !.pc = "done", !.out = split_into_chunks(probe.args.plain_text)]
    /\ UNCHANGED Rest

NextSplit == split_into_chunks_returns

SpecSplit == InitSplit /\ [][NextSplit]_vars

\* score_chunk, called for two queries in turn on one chunk under one
\* history: queries that match the chunk's text, its section name or
\* nothing, and histories that hold a query's token inside and outside the
\* window of the last entries
ScoreQueries == {<<"b">>, <<"c", " ", "b", "?">>, <<"z">>, <<"H">>, <<>>}

ScoreHistories ==
    { <<>>, << <<"b">> >>, << <<"c">> >>,
      << <<"b">>, <<"e">>, <<"e">>, <<"e">>, <<"e">> >> }

ScoreChunks ==
    { Chunk(<<"s", "1">>, <<"b">>, 0, 0),
      Chunk(<<"H">>, <<"c", " ", "b", " ", "c", ".">>, 1, 1),
      Chunk(<<"b">>, <<"c">>, 2, 2),
      Chunk(<<"s", "4">>, <<".">>, 3, 3),
      Chunk(<<"b">>, <<".", " ">>, 4, 4) }

InitScore ==
    /\ EmptyStore /\ Standby /\ NoWindow /\ NoCaller
    /\ probe \in {Called("score_chunk", [queries |-> <<q1, q2>>, history |-> h, chunk |-> c]) :
                     q1 \in ScoreQueries, q2 \in ScoreQueries, h \in ScoreHistories,
                     c \in ScoreChunks}

score_chunk_returns ==
    /\ probe.fn = "score_chunk" /\ probe.pc = "called"
    /\ LET out == Append(probe.out,
                         score_chunk(probe.args.queries[Len(probe.out) + 1],
                                     probe.args.history, probe.args.chunk))
       IN probe' = [probe EXCEPT !.out = out,
                                 !.pc = IF Len(out) = Len(probe.args.queries)
                                        THEN "done" ELSE "called"]
    /\ UNCHANGED Rest

NextScore == score_chunk_returns

SpecScore == InitScore /\ [][NextScore]_vars

\* ------------------------------------------------------------ properties

Frame(t) == call[t]

Raised(f, error) == f.pc = "done" /\ f.result.kind = "raise" /\ f.result.error = error

Returned(f) == f.pc = "done" /\ f.result.kind = "return"

Did(f, event) == \E i \in DOMAIN f.trace : f.trace[i] = event

\* C1: the step of answer_question that reads the session fails with the
\* invalid-session error when the store has no session with that id, and with
\* the no-article-selected error when the session's article title is empty or
\* None; the failing call has done nothing but get_session (no cache lookup,
\* fetch, upsert, model call or search) and the cache is what it was.
C1_ValidationFailsFast ==
    [][\A t \in Threads :
          (call[t].pc = "get_session" /\ call'[t].pc # "get_session") =>
             LET sid == call[t].session_id
                 f == call'[t]
             IN /\ sid \notin DOMAIN sessions =>
                     Raised(f, ErrInvalidSession) /\ f.trace = <<"get_session">>
                /\ (sid \in DOMAIN sessions /\ sessions[sid].article_title \in {None_, ""}) =>
                     Raised(f, ErrNoArticle) /\ f.trace = <<"get_session">>
                /\ articles' = articles /\ wiki_language' = wiki_language]_vars

C1_Witness ==
    \E t \in Threads :
        /\ Raised(Frame(t), ErrNoArticle)
        /\ Frame(t).session_id \in DOMAIN sessions
        /\ sessions[Frame(t).session_id].article_title = ""

\* C2: a call whose article source answered "not found" on a cache miss has
\* failed with the article-not-found error right after the fetch: no upsert
\* into the cache, no retrieval, no model call, no extractive fallback and no
\* external search.
C2_NotFoundIsHardFailure ==
    \A t \in Threads :
        Frame(t).fetched = "missing" =>
            /\ Raised(Frame(t), ErrNotFound)
            /\ Frame(t).trace[Len(Frame(t).trace)] = "fetch"
            /\ \A e \in {"upsert", "list_messages", "retrieve", "chat", "chat_fallback",
                         "extractive", "search"} : ~Did(Frame(t), e)
            /\ Frame(t).retrieved = <<>> /\ Frame(t).reply = {} /\ Frame(t).searched = {}

C2_Witness ==
    \E t \in Threads :
        /\ Frame(t).entry = "answer_question"
        /\ Frame(t).fetched = "missing"
        /\ Raised(Frame(t), ErrNotFound)
        /\ articles = <<>>

\* the model answered, and its text was empty or blank
BlankReply(f) == f.reply # {} /\ IsBlank(The(f.reply))

\* the search was issued and gave nothing usable: it raised, or it collected
\* no result with a label and a URL
SearchGaveNothing(f) == f.searched # {} /\ (The(f.searched).raised \/ The(f.searched).usable = 0)

\* the search was issued and collected at least one result without raising
SearchGaveResults(f) == f.searched # {} /\ ~The(f.searched).raised /\ The(f.searched).usable > 0

\* C3: a transport error of the model call never leaves answer_question: no
\* call that has reached the model request ends by raising.
C3_ModelErrorIsSoft ==
    \A t \in Threads :
        (Frame(t).pc = "done" /\ Did(Frame(t), "chat")) => Frame(t).result.kind = "return"

\* C4: every call that returns has run the extractive step when the model is
\* not configured or when the configured model answered an empty or blank
\* text (and such a call has returned, not raised).
C4_ExtractiveAfterBlankReply ==
    \A t \in Threads :
        /\ (Frame(t).pc = "done" /\ BlankReply(Frame(t))) => Frame(t).result.kind = "return"
        /\ (Returned(Frame(t)) /\ Frame(t).entry = "answer_question"
              /\ (~available \/ BlankReply(Frame(t))))
           => Did(Frame(t), "extractive")

\* C5: a call issues the external search only if the Retriever returned no
\* chunk for its question and the answer is empty or blank after the model
\* and extractive steps.
C5_SearchOnlyWithoutChunks ==
    \A t \in Threads :
        Did(Frame(t), "search") =>
            Frame(t).retrieved = <<>> /\ IsBlank(Frame(t).before_search)

\* C6: with the model not configured and no chunk retrieved, a call that
\* returns has issued the external search after the extractive step gave the
\* "nothing relevant found" message, and when that search collected a result
\* the returned answer is the link list and citations.external is TRUE.
C6_SearchAfterNothingFound ==
    \A t \in Threads :
        LET f == Frame(t)
        IN (Returned(f) /\ f.entry = "answer_question" /\ ~available /\ f.retrieved = <<>>) =>
              /\ Did(f, "extractive") /\ f.trace[Len(f.trace)] = "search"
              /\ f.before_search = MsgNothingFound
              /\ SearchGaveResults(f) =>
                    /\ f.result.answer[1] = MsgExternalHead[1]
                    /\ "external" \in DOMAIN f.result.citations
                    /\ f.result.citations.external = TRUE

C8_FailedSearchSwallowed ==
    \A t \in Threads :
        LET f == Frame(t)
        IN SearchGaveNothing(f) =>
              /\ Returned(f)
              /\ f.result.answer = f.before_search
              /\ "external" \notin DOMAIN f.result.citations

C8_Witness ==
    \E t \in Threads :
        /\ Frame(t).searched # {} /\ The(Frame(t).searched).raised
        /\ The(Frame(t).searched).usable > 0
        /\ Returned(Frame(t))

\* C9: a call that returns after zero chunks were retrieved, or after an
\* empty or blank model text, returns an answer that is not empty and not
\* blank, whatever the search gave.
C9_DegenerateGetsText ==
    \A t \in Threads :
        LET f == Frame(t)
        IN (Returned(f) /\ f.entry = "answer_question"
              /\ (f.retrieved = <<>> \/ BlankReply(f))) =>
              ~IsBlank(f.result.answer)

\* C10: the citations of every returned pair hold article {title, url} and
\* sections, and hold the key external (TRUE) exactly when the external
\* search produced the answer returned with them.
C10_CitationShape ==
    \A t \in Threads :
        LET f == Frame(t)
            c == f.result.citations
        IN (Returned(f) /\ f.entry = "answer_question") =>
              /\ {"article", "sections"} \subseteq DOMAIN c
              /\ DOMAIN c \subseteq {"article", "sections", "external"}
              /\ DOMAIN c.article = {"title", "url"}
              /\ c.article.title = f.title /\ c.article.url = f.url
              /\ Len(c.sections) = Len(f.retrieved)
              /\ ("external" \in DOMAIN c) <=>
                    (f.answer_by = "external" /\ f.result.answer[1] = MsgExternalHead[1])
              /\ ("external" \in DOMAIN c) => c.external = TRUE

C10_Witness ==
    \E t \in Threads :
        /\ Returned(Frame(t)) /\ Frame(t).answer_by = "external"
        /\ "external" \in DOMAIN Frame(t).result.citations
        /\ Len(Frame(t).result.citations.sections) > 0

\* the sections of the chunks retrieve_top_k gives for the question and the
\* history pairs of the frame
RetrievedNow(f) ==
    retrieve_top_k(f.chunks, f.question,
                   [i \in 1..Len(f.history_pairs) |-> f.history_pairs[i][1]], RetrieveK)

\* C11: the citations returned by a call list, in order, the sections of the
\* chunks the Retriever returned for that call's question and history, which
\* are the chunks given to the prompt builder when the model is attempted;
\* neither more sections nor those of another question.
C11_CitationFidelity ==
    \A t \in Threads :
        LET f == Frame(t)
            R == RetrievedNow(f)
        IN (Returned(f) /\ f.entry = "answer_question") =>
              /\ f.result.citations.sections = [i \in 1..Len(R) |-> R[i].section]
              /\ f.retrieved = R
              /\ Did(f, "chat") =>
                    f.prompt = build_messages(f.question, f.history_pairs, R, f.title, f.url)

C11_Witness ==
    \E t \in Threads :
        /\ Returned(Frame(t)) /\ BlankReply(Frame(t))
        /\ Frame(t).top_chunks = <<>>
        /\ Len(Frame(t).result.citations.sections) = 2
        /\ Frame(t).history_pairs # <<>>

\* C12: a call of ensure_article_cached whose fetch succeeded is the first
\* for its (title, language): the article source has not served that request
\* before, every later call for it being a cache hit.
C12_CacheIdempotence ==
    \A t \in Threads :
        (Frame(t).pc = "upsert" /\ Frame(t).fetched = "found") =>
            <<Frame(t).article_title, Frame(t).language>> \notin fetch_log

\* the lookup of the call found the entry: it went past get_article without
\* turning to the article source
Hit(f) == Did(f, "get_article") /\ f.pc # "set_language" /\ ~Did(f, "set_language")

\* C13: when the cache holds (title, language), the lookup step of
\* ensure_article_cached returns the split of the cached content, and from
\* then on the call neither asks the article source nor writes the cache.
C13_HitIsAuthoritative ==
    [][\A t \in Threads :
          /\ (call[t].pc = "get_article" /\ call'[t] # call[t]
                /\ <<call[t].article_title, call[t].language>> \in DOMAIN articles) =>
                  /\ Hit(call'[t])
                  /\ call'[t].chunks =
                        split_into_chunks(articles[<<call[t].article_title, call[t].language>>].content)
                  /\ call'[t].url = articles[<<call[t].article_title, call[t].language>>].url
                  /\ articles' = articles /\ fetch_log' = fetch_log
          /\ (Hit(call[t]) /\ call'[t].pc # "idle") =>
                  /\ articles' = articles /\ fetch_log' = fetch_log
                  /\ ~Did(call'[t], "fetch") /\ ~Did(call'[t], "upsert")
                  /\ call'[t].chunks = call[t].chunks]_vars

C13_Witness ==
    \E t \in Threads :
        /\ Hit(Frame(t)) /\ Returned(Frame(t))
        /\ Frame(t).entry = "answer_question"
        /\ Len(Frame(t).chunks) = 2

\* C14: no step of an engine call changes a session row or the message log;
\* the only table a step changes is the article cache, and then the step is
\* the upsert that follows a cache miss and a successful fetch.
C14_EngineOnlyReads ==
    [][call' # call =>
          /\ sessions' = sessions /\ next_session_id' = next_session_id
          /\ messages' = messages
          /\ articles' # articles =>
                \E t \in Threads :
                    /\ call[t].pc = "upsert" /\ call[t].fetched = "found"
                    /\ Did(call[t], "fetch") /\ ~Hit(call[t])]_vars

C14_Witness ==
    \E t \in Threads :
        /\ Returned(Frame(t)) /\ Frame(t).entry = "answer_question"
        /\ Did(Frame(t), "upsert")
        /\ list_messages(Frame(t).session_id) # <<>>

\* C15: the model is requested only while the client is configured, and no
\* call ends with the client's "not configured" error.
C15_ModelOnlyWhenConfigured ==
    \A t \in Threads :
        /\ (Frame(t).pc \in {"chat", "chat_fallback"} \/ Did(Frame(t), "chat")) => available
        /\ ~Raised(Frame(t), ErrNotConfigured)

C15_Witness ==
    \E t \in Threads :
        /\ ~available /\ Returned(Frame(t)) /\ Frame(t).entry = "answer_question"
        /\ Did(Frame(t), "extractive") /\ ~Did(Frame(t), "chat")
        /\ Frame(t).prompt = <<>>

ProbeDone(fn) == probe.fn = fn /\ probe.pc = "done"

\* C16: retrieve_top_k returns the first k of the chunks with a score above
\* zero, by descending score, equal scores in the order of the chunk list:
\* no chunk with score <= 0, at most k chunks, none when no chunk scores
\* above zero.
C16_TopK ==
    ProbeDone("retrieve_top_k") =>
        LET chunks == probe.args.chunks
            Score(i) == score_chunk(probe.args.query, probe.args.history, chunks[i])
            Positive == {i \in 1..Len(chunks) : Score(i) > 0}
            Rank(i) == 1 + Cardinality({j \in 1..Len(chunks) :
                                          Score(j) > Score(i) \/ (Score(j) = Score(i) /\ j < i)})
            n == IF Cardinality(Positive) < probe.args.k
                 THEN Cardinality(Positive) ELSE probe.args.k
        IN /\ Len(probe.out) = n
           /\ \A r \in 1..n : \E i \in Positive : Rank(i) = r /\ probe.out[r] = chunks[i]
           /\ \A r \in 1..Len(probe.out) :
                 score_chunk(probe.args.query, probe.args.history, probe.out[r]) > 0
           /\ Len(probe.out) <= probe.args.k
           /\ Positive = {} => probe.out = <<>>

C16_Witness ==
    /\ ProbeDone("retrieve_top_k")
    /\ probe.args.k = 2 /\ Len(probe.args.chunks) = 3 /\ Len(probe.out) = 2
    /\ \A i \in 1..3 : score_chunk(probe.args.query, probe.args.history, probe.args.chunks[i]) > 0
    /\ probe.out[1] = probe.args.chunks[3]
    /\ score_chunk(probe.args.query, probe.args.history, probe.args.chunks[1])
         = score_chunk(probe.args.query, probe.args.history, probe.args.chunks[2])
    /\ probe.args.chunks[1] # probe.args.chunks[2]

\* C17: the history pairs of a message log are, in order, one pair for each
\* user message that is followed by an assistant message (that message's
\* text as the answer) or that is the last message (the answer ""); a user
\* message followed by another user message gives no pair, and an assistant
\* message that follows no user message gives none.
C17_HistoryPairs ==
    ProbeDone("history_pairs") =>
        LET msgs == probe.args.msgs
            Pairing == {j \in 1..Len(msgs) :
                          /\ msgs[j].role = "user"
                          /\ (j = Len(msgs) \/ msgs[j + 1].role = "assistant")}
            Nth(r) == CHOOSE j \in Pairing : Cardinality({i \in Pairing : i < j}) = r - 1
        IN /\ Len(probe.out) = Cardinality(Pairing)
           /\ \A r \in 1..Len(probe.out) :
                 probe.out[r] = << msgs[Nth(r)].text,
                                   IF Nth(r) = Len(msgs) THEN <<>> ELSE msgs[Nth(r) + 1].text >>

C17_Witness ==
    /\ ProbeDone("history_pairs")
    /\ [i \in 1..Len(probe.args.msgs) |-> <<probe.args.msgs[i].role, probe.args.msgs[i].text>>]
         = << <<"user", <<"q", "1">>>>, <<"assistant", <<"a", "1">>>>, <<"user", <<"q", "2">>>> >>
    /\ probe.out = << << <<"q", "1">>, <<"a", "1">> >>, << <<"q", "2">>, <<>> >> >>

\* C18: build_messages returns two system messages, then for each of the
\* last 4 history pairs at most a user message followed by its assistant
\* message (none for an empty answer), then the user message of the current
\* question: at most 11 messages, the last being the question.
C18_PromptLayout ==
    ProbeDone("build_messages") =>
        LET out == probe.out
            pairs == probe.args.history_pairs
            n == IF Len(pairs) < 4 THEN Len(pairs) ELSE 4
            used(i) == pairs[Len(pairs) - n + i]
            Answered(i) == Cardinality({j \in 1..i : used(j)[2] # <<>>})
            pos(i) == 2 + i + Answered(i - 1)
        IN /\ Len(out) = 3 + n + Answered(n)
           /\ Len(out) <= 11
           /\ out[1].role = "system" /\ out[2].role = "system"
           /\ \A i \in 3..Len(out) : out[i].role \in {"user", "assistant"}
           /\ out[Len(out)] = [role |-> "user", content |-> probe.args.question]
           /\ \A i \in 1..n :
                 /\ out[pos(i)] = [role |-> "user", content |-> used(i)[1]]
                 /\ used(i)[2] # <<>> =>
                       out[pos(i) + 1] = [role |-> "assistant", content |-> used(i)[2]]

C18_Witness ==
    /\ ProbeDone("build_messages")
    /\ Len(probe.args.history_pairs) = 5
    /\ \A i \in 1..5 : probe.args.history_pairs[i][2] # <<>>
    /\ Len(probe.out) = 11

\* a question is in flight from the click that sends it until its worker has
\* put the answer or the error on the queue
InFlight(t) == call[t].pc # "idle"

\* C19: no two questions of one session are in flight together: the window
\* starts no worker for a session while an earlier question of that session
\* has neither been answered nor failed.
C19_OneInFlightPerSession ==
    \A t \in DOMAIN call, u \in DOMAIN call :
        (t # u /\ InFlight(t) /\ InFlight(u)) => call[t].origin # call[u].origin

\* the thread is inside the `with self._lock` block of a Database method
InStore(t) == db_call[t].pc \in {"locked", "executed"}

\* C20: no two threads are inside a Database method's locked block together,
\* the thread inside holds the lock, and a statement is executed only by the
\* thread that holds it.
C20_StoreSerialized ==
    /\ \A t \in DOMAIN db_call, u \in DOMAIN db_call :
          (InStore(t) /\ InStore(u)) => t = u
    /\ \A t \in DOMAIN db_call : InStore(t) => db_lock.owner = t /\ db_lock.count = 1
    /\ (\A t \in DOMAIN db_call : ~InStore(t)) => db_lock = Unlocked

C20_Witness ==
    /\ db_call["t1"].pc = "executed" /\ db_call["t1"].op.method = "delete_session"
    /\ db_call["t2"].pc = "with" /\ db_call["t2"].op.method = "add_message"
    /\ db_call["t2"].op.session_id \notin DOMAIN sessions

\* C22: no chunk that split_into_chunks emits has a text of more than 1200
\* characters, unless the chunk is a single paragraph (its text holds no
\* blank-line separator) that is itself longer than 1200 characters.
C22_CapGreediness ==
    ProbeDone("split_into_chunks") =>
        \A i \in 1..Len(probe.out) :
            Len(probe.out[i].text) > ChunkCap => Find(probe.out[i].text, <<"\n", "\n">>) = 0

\* the text with every run of blanks and newlines collapsed to one blank and
\* none at its ends
Collapse(s) ==
    LET t == [i \in 1..Len(s) |->
                [c |-> IF IsSpace(s[i]) THEN " " ELSE s[i],
                 drop |-> IsSpace(s[i]) /\ (i = 1 \/ IsSpace(s[i - 1]))]]
        Kept(x) == ~x.drop
        kept == SelectSeq(t, Kept)
        u == [i \in 1..Len(kept) |-> kept[i].c]
    IN IF u # <<>> /\ u[Len(u)] = " " THEN SubSeq(u, 1, Len(u) - 1) ELSE u

\* the lines of the text that was split, the lines that are headings, and the
\* places a section starts at: 0 for the lines before the first heading, the
\* number of its heading line for every other section
InputLines == SplitLines(probe.args.plain_text)

Headings == {i \in 1..Len(InputLines) : HeadingMatch(InputLines[i]).matched}

SectionStarts == {0} \cup Headings

\* the lines of the section that starts at h: those up to the next heading
BodyOf(h) ==
    LET later == {i \in Headings : i > h}
        last == IF later = {} THEN Len(InputLines)
                ELSE (CHOOSE i \in later : \A j \in later : i <= j) - 1
    IN SubSeq(InputLines, h + 1, last)

\* the texts of the emitted chunks of the section that starts at h, in order
TextsOf(h) ==
    LET Here(ch) == ch.start_line = h
        chs == SelectSeq(probe.out, Here)
    IN [i \in 1..Len(chs) |-> chs[i].text]

\* C23: no chunk that split_into_chunks emits has an empty text; the chunks
\* come section by section in the order of the text, and for every section
\* the texts of its chunks, one after the other, are the section's lines up
\* to the collapsing of blanks: no paragraph lost, doubled or out of order.
C23_ChunkCoverage ==
    ProbeDone("split_into_chunks") =>
        /\ \A i \in 1..Len(probe.out) :
              /\ ~IsBlank(probe.out[i].text)
              /\ probe.out[i].start_line \in SectionStarts
        /\ \A i \in 1..Len(probe.out), j \in 1..Len(probe.out) :
              i < j => probe.out[i].start_line <= probe.out[j].start_line
        /\ \A h \in SectionStarts :
              Collapse(Join(TextsOf(h), <<"\n", "\n">>)) = Collapse(Join(BodyOf(h), <<"\n">>))

C23_Witness ==
    /\ ProbeDone("split_into_chunks")
    /\ InputLines = <<Para(601, "x"), <<>>, Para(601, "x")>>
    /\ Len(probe.out) = 2
    /\ TextsOf(0) = <<Para(601, "x"), Para(601, "x")>>

\* the section name of the section that starts at h
NameOf(h) ==
    IF h = 0 THEN Introduction
    ELSE LET name == HeadingMatch(InputLines[h]).name
         IN IF name = <<>> THEN SectionDefault ELSE name

\* C30: every chunk of split_into_chunks carries the name captured from the
\* heading line its section starts at, "Introduction" when its lines come
\* before the first heading and "Section" when the heading captures an empty
\* name; a heading with no non-blank line up to the next heading or the end
\* of the text gives no chunk, and the empty text gives no chunk at all.
C30_SectionTagging ==
    ProbeDone("split_into_chunks") =>
        /\ \A i \in 1..Len(probe.out) :
              /\ probe.out[i].start_line \in SectionStarts
              /\ probe.out[i].section = NameOf(probe.out[i].start_line)
        /\ \A h \in SectionStarts :
              (\A i \in 1..Len(BodyOf(h)) : IsBlank(BodyOf(h)[i])) => TextsOf(h) = <<>>
        /\ probe.args.plain_text = <<>> => probe.out = <<>>

C30_Witness ==
    /\ ProbeDone("split_into_chunks")
    /\ InputLines = << <<"=", "=", "=", "=">>, <<" ", "a", " ", " ", "b", ".", " ">>,
                       <<"=", "=", " ", "H", " ", "=", "=">> >>
    /\ Len(probe.out) = 1
    /\ probe.out[1].section = SectionDefault /\ probe.out[1].start_line = 1

\* the tokens of the query of the i-th call, of the chunk's text, of the
\* chunk (text and section name) and of the history entries that count
QueryTokens(i) == Range(simple_tokenize(probe.args.queries[i]))

TextTokens == Range(simple_tokenize(probe.args.chunk.text))

ChunkTokens == TextTokens \cup Range(simple_tokenize(probe.args.chunk.section))

HistoryTokens ==
    Range(simple_tokenize(Join(LastN(probe.args.history, HistWindow), <<" ">>)))

\* C24: a chunk whose text contains a token of the query Q scores strictly
\* higher against Q than against a query that shares no token with the
\* chunk, under the same history.
C24_ScoreMonotonicity ==
    (ProbeDone("score_chunk") /\ QueryTokens(1) \cap TextTokens # {}
                              /\ QueryTokens(2) # {}
                              /\ QueryTokens(2) \cap ChunkTokens = {})
        => probe.out[1] > probe.out[2]

\* C24 as amended: under the same history the chunk never scores lower
\* against Q than against the query that shares no token with it, and it
\* scores strictly higher when the chunk's text contains a token of Q that is
\* not a token of the last four history entries.
C24_ScoreMonotoneBeyondHistory ==
    (ProbeDone("score_chunk") /\ QueryTokens(1) \cap TextTokens # {}
                              /\ QueryTokens(2) # {}
                              /\ QueryTokens(2) \cap ChunkTokens = {})
        => /\ probe.out[1] >= probe.out[2]
           /\ (QueryTokens(1) \cap TextTokens) \ HistoryTokens # {}
                 => probe.out[1] > probe.out[2]
           /\ (QueryTokens(1) \cap ChunkTokens) \subseteq HistoryTokens
                 => probe.out[1] = probe.out[2]

C24_Witness ==
    /\ ProbeDone("score_chunk")
    /\ probe.args.queries = << <<"b">>, <<"z">> >>
    /\ Len(probe.args.history) = 5 /\ probe.args.history[1] = <<"b">>
    /\ probe.args.chunk.text = <<"c", " ", "b", " ", "c", ".">>
    /\ probe.out[1] > probe.out[2] /\ probe.out[2] = 0

\* the call of t reads the message log in this step
ReadsLog(t) == call[t].pc = "list_messages" /\ call'[t].pc # "list_messages"

\* C25: when answer_question reads the message log, the user message of the
\* question it is answering is not in the store, so the log it reads does not
\* contain it and no reconstructed pair is that question waiting for its
\* answer.
C25_QuestionNotYetStored ==
    [][\A t \in DOMAIN call :
          ReadsLog(t) =>
              /\ ~(/\ call[t].sent_at \in 1..Len(messages)
                   /\ messages[call[t].sent_at].session_id = call[t].session_id)
              /\ \A i \in 1..Len(call'[t].history_pairs) :
                    call'[t].history_pairs[i] # <<call[t].question, <<>>>>]_vars

\* the worker t ends in this step
Ends(t) == call[t].pc # "idle" /\ call'[t].pc = "idle"

\* C21: a question that is sent runs on a worker thread of its own, which
\* puts exactly one event on the queue when its call has returned or raised
\* (the answer with its citations after a return, the error after a raise)
\* and then ends; nothing else puts an event; every worker started ends,
\* every event queued is taken off the queue by the poll loop, and a status
\* of "Thinking..." does not stay.
C21_OneEventPerQuestion ==
    /\ [][/\ \A t \in DOMAIN call :
               /\ Ends(t) =>
                     /\ call[t].pc = "done"
                     /\ network_queue' = Append(network_queue, Put(call[t]))
                     /\ Put(call[t]).kind
                          = (IF call[t].result.kind = "return" THEN "answer" ELSE "error")
               /\ (call[t].pc = "idle" /\ call'[t].pc # "idle") =>
                     /\ call'[t].pc = "work"
                     /\ \A u \in DOMAIN call \ {t} : call'[u] = call[u]
               /\ (call[t].pc # "idle" /\ ~Ends(t)) => call'[t].question = call[t].question
          /\ Len(network_queue') > Len(network_queue) =>
               Cardinality({t \in DOMAIN call : Ends(t)}) = 1]_vars
    /\ \A t \in Range(Workers) : (call[t].pc # "idle") ~> (call[t].pc = "idle")
    /\ (network_queue # <<>>) ~> (network_queue = <<>>)
    /\ (status = StatusThinking) ~> (status # StatusThinking)

C21_Witness ==
    /\ status = StatusError
    /\ network_queue # <<>> /\ network_queue[1].kind = "answer"
    /\ \A t \in DOMAIN call : call[t].pc = "idle"
    /\ Len(messages) = 2

\* what get_article gives for a key on the table `rows`, without the time of
\* the fetch
Cached(rows, key) ==
    {[pageid |-> r.pageid, revision_id |-> r.revision_id, url |-> r.url, content |-> r.content] :
        r \in get_article_sql(rows, key[1], key[2])}

\* C28: the articles table holds at most one row for a (title, language);
\* after upsert_article, get_article of its key gives the page id, revision
\* id, url and content of that upsert, whether the key was cached before or
\* not, and what get_article gives for every other key is what it was; a
\* get_article call returns what the table holds and changes nothing.
C28_UpsertByKey ==
    /\ [][/\ \A key \in CacheKeys : Cardinality(RowsOf(article_rows', key[1], key[2])) <= 1
          /\ probe'.fn = "upsert_article" =>
                /\ Cached(article_rows', <<probe'.args.title, probe'.args.language>>)
                     = {probe'.args.page}
                /\ \A key \in CacheKeys \ {<<probe'.args.title, probe'.args.language>>} :
                      get_article_sql(article_rows', key[1], key[2])
                        = get_article_sql(article_rows, key[1], key[2])
          /\ probe'.fn = "get_article" =>
                /\ article_rows' = article_rows
                /\ probe'.out = get_article_sql(article_rows, probe'.args.title,
                                                probe'.args.language)]_vars

C28_Witness ==
    /\ Len(article_rows) = 3
    /\ probe.fn = "get_article" /\ probe.args.title = "turing" /\ probe.out # {}
    /\ The(probe.out).revision_id = 12 /\ The(probe.out).url = None_
    /\ The(probe.out).fetched_at = "2024-01-02T00:00:00"
    /\ \E i \in DOMAIN article_rows :
          article_rows[i].title = "Turing" /\ article_rows[i].language = "en"
          /\ article_rows[i].revision_id = 11

\* the place of a step in the order of answer_question: reading the session,
\* the cache lookup and (on a miss) the fetch and the upsert, the message
\* log, the retrieval, the model, the extractive answer, the search
StepRank(event) ==
    CASE event = "get_session" -> 1
      [] event = "get_article" -> 2
      [] event = "set_language" -> 3
      [] event = "fetch" -> 4
      [] event = "upsert" -> 5
      [] event = "list_messages" -> 6
      [] event = "retrieve" -> 7
      [] event = "chat" -> 8
      [] event = "chat_fallback" -> 9
      [] event = "extractive" -> 10
      [] event = "search" -> 11

\* C26: the steps of one answer_question call are taken in the order session,
\* article cache (lookup, then on a miss fetch and upsert), history,
\* retrieval, model, extractive answer, search, and the citations and the
\* answer are returned last: the model is called only after the retrieval,
\* with the article in the cache; the upsert of a miss comes before the
\* retrieval; the search is issued only after the model has been called or
\* the extractive answer made.
C26_StepOrder ==
    \A t \in Threads :
        LET f == Frame(t)
        IN f.entry = "answer_question" =>
              /\ \A i \in DOMAIN f.trace, j \in DOMAIN f.trace :
                    i < j => StepRank(f.trace[i]) < StepRank(f.trace[j])
              /\ f.trace # <<>> => f.trace[1] = "get_session"
              /\ Did(f, "chat") =>
                    /\ Did(f, "retrieve") /\ Did(f, "get_article")
                    /\ <<f.title, f.language>> \in DOMAIN articles
              /\ Did(f, "retrieve") => Did(f, "list_messages") /\ Did(f, "get_article")
              /\ (Did(f, "fetch") /\ Did(f, "retrieve")) => Did(f, "upsert")
              /\ Did(f, "search") => Did(f, "chat") \/ Did(f, "extractive")
              /\ Returned(f) =>
                    /\ Did(f, "retrieve")
                    /\ f.result.citations = f.citations /\ f.result.answer = f.answer

C26_Witness ==
    \E t \in Threads :
        /\ Returned(Frame(t))
        /\ Frame(t).trace = <<"get_session", "get_article", "set_language", "fetch", "upsert",
                              "list_messages", "retrieve", "chat", "search">>
        /\ Frame(t).used_external

\* the number of times the call has taken the step
Times(f, event) == Cardinality({i \in DOMAIN f.trace : f.trace[i] = event})

\* C27: one answer_question call sends at most one request to the article
\* source, calls the model at most once and issues at most one search,
\* whether these succeed, give nothing or fail.
C27_NoRetries ==
    \A t \in Threads :
        Frame(t).entry = "answer_question" =>
            /\ Times(Frame(t), "fetch") <= 1
            /\ Times(Frame(t), "chat") <= 1
            /\ Times(Frame(t), "search") <= 1

C27_Witness ==
    \E t \in Threads :
        /\ Frame(t).entry = "answer_question" /\ Raised(Frame(t), ErrTransport)
        /\ Frame(t).fetched = "error"
        /\ Times(Frame(t), "fetch") = 1 /\ ~Did(Frame(t), "upsert")

\* the snippet blocks of an extractive answer: what stands between its first
\* line and its closing line, blocks being separated by an empty line
SnippetBlocks(answer) ==
    LET parts == Split(answer, <<"\n", "\n">>)
    IN IF Len(parts) < 2 THEN <<>> ELSE SubSeq(parts, 2, Len(parts) - 1)

\* the label of a block that starts with "[Section: "
LabelOf(block) == SubSeq(block, 2, Find(block, <<"] ">>) - 1)

\* C29: with the model not configured, the extractive answer has one snippet
\* block for each retrieved chunk, at most 5, in the order of the retrieval,
\* each starting with the label of its chunk's section, so that the labels
\* are the sections of the citations; with no chunk retrieved it is the
\* nothing-found message, which has no block.
C29_ExtractiveSnippets ==
    \A t \in Threads :
        LET f == Frame(t)
            blocks == SnippetBlocks(f.answer)
        IN (~available /\ f.answer_by = "extractive") =>
              IF f.retrieved = <<>>
              THEN f.answer = MsgNothingFound /\ blocks = <<>>
              ELSE /\ Len(blocks) = Len(f.retrieved) /\ Len(blocks) <= 5
                   /\ Split(f.answer, <<"\n", "\n">>)[1] = MsgSnippetsHead
                   /\ Split(f.answer, <<"\n", "\n">>)[Len(blocks) + 2] = MsgSuggestions
                   /\ \A i \in 1..Len(blocks) :
                         /\ blocks[i][1] = "[Section: "
                         /\ LabelOf(blocks[i]) = f.retrieved[i].section
                   /\ [i \in 1..Len(blocks) |-> LabelOf(blocks[i])] = f.citations.sections

C29_Witness ==
    \E t \in Threads :
        /\ ~available /\ Returned(Frame(t)) /\ Frame(t).answer_by = "extractive"
        /\ Len(Frame(t).retrieved) = 2
        /\ Frame(t).retrieved[1].section # Frame(t).retrieved[2].section
        /\ Len(SnippetBlocks(Frame(t).answer)) = 2

\* C31: a chunk of split_into_chunks whose text is shorter than 1200
\* characters is split again into exactly one chunk, with the same text.
C31_SplitIdempotent ==
    ProbeDone("split_into_chunks") =>
        \A i \in 1..Len(probe.out) :
            Len(probe.out[i].text) < ChunkCap =>
                LET again == split_into_chunks(probe.out[i].text)
                IN Len(again) = 1 /\ again[1].text = probe.out[i].text

C31_Witness ==
    /\ ProbeDone("split_into_chunks")
    /\ \E i \in 1..Len(probe.out) :
          /\ Len(probe.out[i].text) < ChunkCap
          /\ Find(probe.out[i].text, <<"\n", "\n">>) # 0
          /\ Len(split_into_chunks(probe.out[i].text)) = 1

\* C32: score_chunk is 0 when the query and the last four history questions
\* have no token, and 0 when the chunk's text has no token even if its
\* section name matches; otherwise it is non-negative, and positive exactly
\* when a query or history token occurs in the chunk's text or section name;
\* so retrieve_top_k returns the chunk only if it shares such a token.
C32_ScoreSign ==
    ProbeDone("score_chunk") =>
        \A i \in 1..Len(probe.out) :
            LET tokens == QueryTokens(i) \cup HistoryTokens
            IN /\ tokens = {} => probe.out[i] = 0
               /\ TextTokens = {} => probe.out[i] = 0
               /\ (tokens # {} /\ TextTokens # {}) =>
                      /\ probe.out[i] >= 0
                      /\ probe.out[i] > 0 <=> tokens \cap ChunkTokens # {}
               /\ retrieve_top_k(<<probe.args.chunk>>, probe.args.queries[i],
                                 probe.args.history, RetrieveK) # <<>>
                      => tokens \cap ChunkTokens # {}

C32_Witness ==
    /\ ProbeDone("score_chunk")
    /\ TextTokens = {} /\ QueryTokens(1) \cap ChunkTokens # {} /\ probe.out[1] = 0
    /\ QueryTokens(2) = {} /\ HistoryTokens # {} /\ probe.out[2] = 0

C32_WitnessPositive ==
    /\ ProbeDone("score_chunk")
    /\ QueryTokens(1) \cap TextTokens = {} /\ HistoryTokens \cap ChunkTokens = {}
    /\ QueryTokens(1) \cap ChunkTokens # {} /\ probe.out[1] > 0
    /\ QueryTokens(2) # {} /\ TextTokens # {} /\ probe.out[2] = 0
    /\ Len(probe.args.history) > HistWindow

\* C33: every stored message belongs to an existing session; a delete_session
\* removes every message of the deleted session, so list_messages of it is
\* empty afterwards, and leaves the messages of the other sessions unchanged.
C33_LogIntegrity ==
    /\ [](\A i \in DOMAIN messages : messages[i].session_id \in DOMAIN sessions)
    /\ [][(DOMAIN sessions' # DOMAIN sessions /\ DOMAIN sessions' \subseteq DOMAIN sessions) =>
             /\ \A s \in DOMAIN sessions \ DOMAIN sessions' :
                    SelectSeq(messages', LAMBDA r : r.session_id = s) = <<>>
             /\ \A s \in DOMAIN sessions' :
                    SelectSeq(messages', LAMBDA r : r.session_id = s) = list_messages(s)]_vars

\* a session with messages has been deleted while another keeps its own
C33_Witness ==
    /\ DOMAIN sessions = {2} /\ next_session_id = 3
    /\ list_messages(1) = <<>>
    /\ Len(list_messages(2)) = 2 /\ Len(messages) = 2

\* C39: in every message list that answer_question passes to the model, the
\* messages after the two system messages alternate user, assistant, user,
\* ... and end with the one user message that carries the current question.
C39_RoleAlternation ==
    \A t \in DOMAIN call :
        call[t].prompt # <<>> =>
            LET turns == SubSeq(call[t].prompt, 3, Len(call[t].prompt))
            IN /\ Len(call[t].prompt) >= 3
               /\ call[t].prompt[1].role = "system" /\ call[t].prompt[2].role = "system"
               /\ \A i \in 1..Len(turns) :
                     turns[i].role = IF i % 2 = 1 THEN "user" ELSE "assistant"
               /\ turns[Len(turns)] = [role |-> "user", content |-> call[t].question]

\* the log of session s with each text replaced by the row's place in the
\* messages table
Places(s) ==
    LET at == SelectSeq([i \in 1..Len(messages) |-> i], LAMBDA i : messages[i].session_id = s)
    IN [n \in 1..Len(at) |-> [role |-> messages[at[n]].role, text |-> <<at[n]>>]]

\* C35: in every message log of a session, each pair with a non-empty answer
\* that answer_question reconstructs pairs a user question with the assistant
\* answer that was produced for that question.
C35_PairFidelity ==
    \A s \in DOMAIN sessions :
        LET pairs == history_pairs_of(Places(s))
        IN \A n \in 1..Len(pairs) :
              (pairs[n][2] # <<>> /\ messages[pairs[n][2][1]].text # <<>>) =>
                  messages[pairs[n][2][1]].reply_to = pairs[n][1][1]

\* C34: what a background worker produces is applied to the session that was
\* current when the user started the action: the worker of a question calls
\* answer_question for that session, the answer is stored as an assistant
\* message of that session, and the worker of a Load passes that session to
\* set_session_article and to set_session_language.
C34_AppliedToOrigin ==
    [][/\ \A t \in DOMAIN call :
             /\ (call[t].pc = "work" /\ call'[t].pc # "work") =>
                    call'[t].session_id \in call[t].origin
             /\ call'[t].title_to # call[t].title_to => call'[t].title_to = call[t].origin
             /\ call'[t].language_to # call[t].language_to =>
                    call'[t].language_to = call[t].origin
       /\ (/\ network_queue # <<>>
           /\ Len(network_queue') < Len(network_queue)
           /\ Head(network_queue).kind = "answer") =>
              /\ Len(messages') > Len(messages)
              /\ messages'[Len(messages) + 1].session_id \in Head(network_queue).origin]_vars

\* C36: every row of the articles cache with language L holds a page of the
\* Wikipedia of language L.
C36_CacheLanguage ==
    \A k \in DOMAIN articles :
        LET page == WikiPage(k[2], k[1])
        IN /\ ~page.missing
           /\ articles[k].url = page.url
           /\ articles[k].content = page.extract

\* the (language, title) pairs a session has been given: the one session 1
\* starts with, and the one of each Load that has written its title
PairsGiven ==
    {<<"en", "Turing">>}
    \cup {<<call[Loaders[i]].language, call[Loaders[i]].title>> :
             i \in {j \in DOMAIN Loaders : call[Loaders[j]].title_to # {}}}

\* C37: the (language, title) pair answer_question reads from a session is
\* the pair of one article load (or the pair the session started with), never
\* the title of a Load with the language the session had before it.
C37_PairOfOneLoad ==
    \A i \in DOMAIN Workers :
        call[Workers[i]].language # "" =>
            <<call[Workers[i]].language, call[Workers[i]].article_title>> \in PairsGiven

\* the Load of thread l has completed for session s: cache entry written,
\* title and language of s set, event put
LoadedFor(l, s) ==
    /\ call[l].pc = "ended" /\ call[l].result.kind = "return"
    /\ call[l].title_to = {s} /\ call[l].language_to = {s}

\* C38: once a Load has completed for a session and no Load is running, the
\* cache lookup of an answer_question for that session is a hit: the call
\* goes on without a fetch, with the chunks of the content a Load stored.
C38_CacheHitAfterLoad ==
    [][\A i \in DOMAIN Workers :
          LET t == Workers[i]
          IN (/\ call[t].pc = "get_article" /\ call'[t].pc # "get_article"
              /\ ~Loading
              /\ \E j \in DOMAIN Loaders : LoadedFor(Loaders[j], call[t].session_id)) =>
                 /\ call'[t].pc = "list_messages"
                 /\ \E j \in DOMAIN Loaders :
                       /\ call[Loaders[j]].data # {}
                       /\ call'[t].chunks =
                             split_into_chunks(The(call[Loaders[j]].data).extract)]_vars

====
